---- MODULE Spec2Model ----
(***************************************************************************)
(* State-machine model of the jiminy simulation engine (class Engine,      *)
(* core/src/Engine.cc and core/include/jiminy/core/Engine.h).              *)
(*                                                                         *)
(* Time.  Every duration and instant is an integer number of ticks of      *)
(* 1e-7 s, so 1 microsecond is 10 ticks.  The two thresholds of the code   *)
(* that are smaller than one tick, EPS (machine epsilon) and               *)
(* MIN_STEPPER_TIMESTEP (1e-12 s), are modelled by the comparisons they    *)
(* induce on whole numbers of ticks: see GtEPS, LtEPS and                  *)
(* LtMinStepperTimestep.                                                   *)
(*                                                                         *)
(* The engine is single threaded: an operation of the public interface is  *)
(* called when no other one is executing (pc = "idle").  step and simulate *)
(* are modelled with one action per iteration of their loops; every other  *)
(* operation is one action.                                                *)
(***************************************************************************)
EXTENDS Integers, Sequences, FiniteSets, TLC

(***************************************************************************)
(* Program constants, in ticks of 1e-7 s.                                  *)
(***************************************************************************)
MIN_SIMULATION_TIMESTEP == 10

DEFAULT_SIMULATION_TIMESTEP == 10000

MAX_SIMULATION_TIMESTEP == 50000

\* Engine::simulate refuses a duration below 5e-3 s.
MIN_SIMULATION_DURATION == 50000

\* getDefaultStepperOptions: dtMax = 1.0e-3 and iterMax = 100000.
DEFAULT_DTMAX == 10000

DEFAULT_ITERMAX == 100000

\* The size the gravity vector must have.
GRAVITY_SIZE == 6

(***************************************************************************)
(* Bounds of the model.                                                    *)
(***************************************************************************)
\* Number of consecutive rejected try_step the failure checker tolerates
\* (500 in boost::numeric::odeint::failed_step_checker).
MaxFailedSteps == 2

\* The largest number of impulses and of profiles that get registered.
MaxImpulses == 2

MaxProfiles == 1

\* The largest value the iteration counter takes before the model stops
\* attempting integrator steps.
MaxIter == 6

\* The largest number of records the log holds before the model stops
\* calling step from the idle state.
MaxLog == 2

\* The adaptive integrator accepts every step of at most AcceptedDt ticks.
AcceptedDt == 10000

\* The size of the name section of the telemetry header, in characters.
\* The number of ticks from which a float64_t no longer holds every tick:
\* 2^17 ticks, above every time the other specifications reach.
FlExact == 131072

NameSectionSize == 16

\* sizeof(T) of internalRegisterVariable<T>, for T = float64_t.
SizeOfT == 8

(***************************************************************************)
(* Comparisons with the sub-tick thresholds, for d a whole number of       *)
(* ticks: d > EPS iff d >= 1, d < EPS iff d <= 0, and                      *)
(* d < MIN_STEPPER_TIMESTEP iff d <= 0.                                    *)
(***************************************************************************)
GtEPS(d) == d > 0

LtEPS(d) == d <= 0

LtMinStepperTimestep(d) == d <= 0

Min2(a, b) == IF a < b THEN a ELSE b

Max2(a, b) == IF a > b THEN a ELSE b

\* std::fmod for a >= 0 and b > 0.
Fmod(a, b) == a % b

\* The rounding of a float64_t sum or difference of times.  A double holds
\* 53 bits; here it holds every number of ticks below FlExact in absolute
\* value and every even number of ticks from FlExact on, and a result that
\* falls between two such numbers is rounded to the one with an even
\* mantissa (a multiple of 4 ticks).
Fl(x) ==
    LET a == IF x < 0 THEN -x ELSE x
        r == IF a < FlExact \/ a % 2 = 0
             THEN a
             ELSE IF (a + 1) % 4 = 0 THEN a + 1 ELSE a - 1
    IN  IF x < 0 THEN -r ELSE r

(***************************************************************************)
(* result_t, and the two ways a call can end without returning a value.    *)
(***************************************************************************)
SUCCESS == "SUCCESS"

ERROR_GENERIC == "ERROR_GENERIC"

ERROR_BAD_INPUT == "ERROR_BAD_INPUT"

ERROR_INIT_FAILED == "ERROR_INIT_FAILED"

\* A void operation returned.
VOID == "VOID"

\* The call is still executing.
PENDING == "PENDING"

\* The call ended by an exception that left the engine's frame.
EXCEPTION == "EXCEPTION"

\* The process ended on a memory fault.
CRASH == "CRASH"

VARIABLES
    isInitialized_,           \* Engine::isInitialized_
    model_,                   \* TRUE iff Engine::model_ is not null
    controller_,              \* TRUE iff Engine::controller_ is not null
    modelIsReset,             \* TRUE iff *model_ is as model_->reset() left it
    controllerIsReset,        \* as much for *controller_
    randGenerator,            \* the process-wide random number generator
    lockModel_,               \* TRUE iff Engine::lockModel_ holds the lock
    isTelemetryConfigured_,   \* Engine::isTelemetryConfigured_
    telemetryData_,           \* *Engine::telemetryData_: header and entries
    logHeader,                \* the header held by telemetryRecorder_
    engineOptionsHolder_,     \* Engine::engineOptionsHolder_
    engineOptions_,           \* Engine::engineOptions_ (typed options)
    stepperUpdatePeriod_,     \* Engine::stepperUpdatePeriod_
    stepperState_,            \* Engine::stepperState_
    stepperStateLast_,        \* Engine::stepperStateLast_
    forcesImpulse_,           \* Engine::forcesImpulse_: start time -> (dt, F)
    forceImpulseNextIt_,      \* Engine::forceImpulseNextIt_: a key, or end()
    forcesProfile_,           \* Engine::forcesProfile_: number of profiles
    log,                      \* the records held by telemetryRecorder_
    pc,                       \* position of the executing operation
    lastOp,                   \* the operation called last from the idle state
    lastLocked,               \* whether lockModel_ was held at that call
    ret,                      \* what that operation returned
    loc,                      \* locals of Engine::step
    cb,                       \* evaluations of callbackFct_ by simulate
    overwritten,              \* the impulse the current call has overwritten
    out,                      \* what the current call has written and read
    sim                       \* locals of Engine::simulate

vars == <<isInitialized_, model_, controller_, modelIsReset,
          controllerIsReset, randGenerator, lockModel_,
          isTelemetryConfigured_, telemetryData_, logHeader,
          engineOptionsHolder_, engineOptions_,
          stepperUpdatePeriod_, stepperState_, stepperStateLast_,
          forcesImpulse_, forceImpulseNextIt_, forcesProfile_, log,
          pc, lastOp, lastLocked, ret, loc, cb, overwritten, out, sim>>

optionVars == <<engineOptionsHolder_, engineOptions_, stepperUpdatePeriod_>>

bindingVars == <<isInitialized_, model_, controller_>>

resetVars == <<modelIsReset, controllerIsReset, randGenerator>>

forceVars == <<forcesImpulse_, forceImpulseNextIt_, forcesProfile_>>

lockVars == <<lockModel_, isTelemetryConfigured_, telemetryData_, logHeader>>

stateVars == <<stepperState_, stepperStateLast_, log>>

callVars == <<loc, sim>>

labelVars == <<lastOp, lastLocked, overwritten, out>>

(***************************************************************************)
(* Options.                                                                *)
(***************************************************************************)
getDefaultOptions ==
    [dtMax                   |-> DEFAULT_DTMAX,
     odeSolver               |-> "runge_kutta_dopri5",
     sensorsUpdatePeriod     |-> 0,
     controllerUpdatePeriod  |-> 0,
     iterMax                 |-> DEFAULT_ITERMAX,
     logInternalStepperSteps |-> FALSE,
     frictionViscous         |-> 8,
     frictionDry             |-> 10,
     dryFrictionVelEps       |-> 1,
     stiffness               |-> 1000000,
     damping                 |-> 2000,
     transitionEps           |-> 1,
     boundTransitionEps      |-> 1,
     gravitySize             |-> GRAVITY_SIZE]

\* Engine.cc:922, the refusal while a simulation runs.
SetOptionsRefused == lockModel_

\* Engine.cc:931
DtMaxOutOfBounds_Strict(dtMax) ==
    MAX_SIMULATION_TIMESTEP <= dtMax \/ dtMax < MIN_SIMULATION_TIMESTEP

DtMaxOutOfBounds(dtMax) ==
    MAX_SIMULATION_TIMESTEP < dtMax \/ dtMax < MIN_SIMULATION_TIMESTEP

\* Engine.cc:939
OdeSolverUnknown(odeSolver) ==
    odeSolver # "runge_kutta_dopri5" /\ odeSolver # "explicit_euler"

\* Engine.cc:950-951
PeriodTooSmall(sensorsUpdatePeriod, controllerUpdatePeriod) ==
    \/ GtEPS(sensorsUpdatePeriod)
       /\ sensorsUpdatePeriod < MIN_SIMULATION_TIMESTEP
    \/ GtEPS(controllerUpdatePeriod)
       /\ controllerUpdatePeriod < MIN_SIMULATION_TIMESTEP

\* Engine.cc:960-964
PeriodsNotMultiple_OneWay(sensorsUpdatePeriod, controllerUpdatePeriod) ==
    /\ GtEPS(sensorsUpdatePeriod)
    /\ GtEPS(controllerUpdatePeriod)
    /\ GtEPS(Min2(Fmod(controllerUpdatePeriod, sensorsUpdatePeriod),
                  sensorsUpdatePeriod
                    - Fmod(controllerUpdatePeriod, sensorsUpdatePeriod)))
    /\ GtEPS(Min2(Fmod(sensorsUpdatePeriod, controllerUpdatePeriod),
                  controllerUpdatePeriod
                    - Fmod(sensorsUpdatePeriod, controllerUpdatePeriod)))
    /\ sensorsUpdatePeriod < controllerUpdatePeriod

PeriodsNotMultiple(sensorsUpdatePeriod, controllerUpdatePeriod) ==
    /\ GtEPS(sensorsUpdatePeriod)
    /\ GtEPS(controllerUpdatePeriod)
    /\ GtEPS(Min2(Fmod(controllerUpdatePeriod, sensorsUpdatePeriod),
                  sensorsUpdatePeriod
                    - Fmod(controllerUpdatePeriod, sensorsUpdatePeriod)))
    /\ GtEPS(Min2(Fmod(sensorsUpdatePeriod, controllerUpdatePeriod),
                  controllerUpdatePeriod
                    - Fmod(sensorsUpdatePeriod, controllerUpdatePeriod)))

\* Engine.cc:999-1010
ComputeStepperUpdatePeriod(sensorsUpdatePeriod, controllerUpdatePeriod) ==
    IF sensorsUpdatePeriod < MIN_SIMULATION_TIMESTEP
    THEN controllerUpdatePeriod
    ELSE IF controllerUpdatePeriod < MIN_SIMULATION_TIMESTEP
         THEN sensorsUpdatePeriod
         ELSE Min2(sensorsUpdatePeriod, controllerUpdatePeriod)

\* What a call leaves in the three option fields and what it returns.
OptionsResult(code, holder, typed, period) ==
    [code |-> code, holder |-> holder, typed |-> typed, period |-> period]

OptionsKept(code) ==
    OptionsResult(code, engineOptionsHolder_, engineOptions_,
                  stepperUpdatePeriod_)

\* Engine::setOptions, as a function of the engine state and of its argument.
setOptions(o) ==
    IF SetOptionsRefused THEN OptionsKept(ERROR_GENERIC)
    ELSE IF DtMaxOutOfBounds(o.dtMax) THEN OptionsKept(ERROR_BAD_INPUT)
    ELSE IF OdeSolverUnknown(o.odeSolver) THEN OptionsKept(ERROR_BAD_INPUT)
    ELSE IF PeriodTooSmall(o.sensorsUpdatePeriod, o.controllerUpdatePeriod)
    THEN OptionsKept(ERROR_BAD_INPUT)
    ELSE IF PeriodsNotMultiple(o.sensorsUpdatePeriod,
                               o.controllerUpdatePeriod)
    THEN OptionsKept(ERROR_BAD_INPUT)
    ELSE IF o.dryFrictionVelEps < 0 THEN OptionsKept(ERROR_BAD_INPUT)
    ELSE IF o.transitionEps < 0 THEN OptionsKept(ERROR_BAD_INPUT)
    ELSE IF o.boundTransitionEps < 0 THEN OptionsKept(ERROR_BAD_INPUT)
    ELSE LET period == ComputeStepperUpdatePeriod(o.sensorsUpdatePeriod,
                                                  o.controllerUpdatePeriod)
         IN  IF o.gravitySize # GRAVITY_SIZE
             THEN \* stepperUpdatePeriod_ was assigned before this check
                  OptionsResult(ERROR_BAD_INPUT, engineOptionsHolder_,
                                engineOptions_, period)
             ELSE OptionsResult(SUCCESS, o, o, period)

(***************************************************************************)
(* Stepper state.  The state vector x is abstracted to a record: nan tells *)
(* whether some component is a NaN, v tells where the value comes from     *)
(* ("zero": vectorN_t::Zero, "init": the xInit given to start, "step": an  *)
(* accepted integrator step).                                              *)
(***************************************************************************)
XVal(v) == [nan |-> FALSE, v |-> v]

XNaN(v) == [nan |-> TRUE, v |-> v]

StepperState(iter, t, dt, t_err, x) ==
    [iter |-> iter, t |-> t, dt |-> dt, t_err |-> t_err, x |-> x]

\* stepperState_t::stepperState_t
stepperState_t == StepperState(0, 0, 0, 0, XVal("zero"))

\* stepperState_t::initialize(model, xInit, dt_init): t_err is not assigned.
stepperStateInitialize(s, xInit, dt_init) ==
    StepperState(0, 0, dt_init, s.t_err, xInit)

(***************************************************************************)
(* The impulse map, a std::map keyed by the start time, is a function from *)
(* the set of its keys; an iterator is a key of the map or end().          *)
(***************************************************************************)
ItEnd == [end |-> TRUE, key |-> 0]

ItAt(k) == [end |-> FALSE, key |-> k]

SetMin(S) == CHOOSE m \in S : \A n \in S : m <= n

\* std::map::begin
MapBegin(m) == IF DOMAIN m = {} THEN ItEnd ELSE ItAt(SetMin(DOMAIN m))

\* operator++ of a std::map iterator that is not end()
MapNext(m, it) ==
    LET after == {k \in DOMAIN m : k > it.key}
    IN  IF after = {} THEN ItEnd ELSE ItAt(SetMin(after))

MapAssign_KeepFirst(m, k, v) ==
    [j \in DOMAIN m \cup {k} |-> IF j \in DOMAIN m THEN m[j] ELSE v]

\* m[k] = v
MapAssign(m, k, v) == [j \in DOMAIN m \cup {k} |-> IF j = k THEN v ELSE m[j]]

EmptyMap == [j \in {} |-> [dt |-> 0, F |-> 0]]

\* No evaluation of the dynamics yet: t is the time of the last evaluation
\* made by try_step and impulses the start times of the impulses whose force
\* computeExternalForces added to fext in it, stages the calls it has made,
\* in their order, reads the positions of the cursor of the impulses it has
\* read an impulse through.
NoSystem == [t |-> 0, impulses |-> {}, stages |-> <<>>, reads |-> {}]

\* No pass of the loop of step yet: t is the time of the last pass, sensors
\* and command tell whether the pass has refreshed the sensors and the
\* command, dxdt is the evaluation of the dynamics it has made.
NoSampling == [t |-> 0, sensors |-> FALSE, command |-> FALSE, dxdt |-> NoSystem]

NoLoc ==
    [stepSize_true |-> 0, t |-> 0, tEnd |-> 0, tNext |-> 0, fails |-> 0,
     fext |-> NoSystem, sampled |-> NoSampling, reads |-> {}]

NoSim == [active |-> FALSE, tEnd |-> 0]

\* No evaluation of the callback by the current call yet: n counts the
\* evaluations the call has made, steps the step calls made by simulate, res,
\* t and x are the result and the arguments of the last evaluation.
NoCallback == [n |-> 0, steps |-> 0, res |-> TRUE, t |-> 0, x |-> XVal("zero")]

(***************************************************************************)
(* TelemetryData.  The header of the shared memory holds the names         *)
(* registered, in the order of their registration, the offset of the next  *)
(* free name, the offset of the next free value and the flag               *)
(* isRegisteringAvailable; the name section ends where the data section    *)
(* starts.  entriesMap_ is the cache of the positions: name -> position.   *)
(***************************************************************************)
NoEntries == [n \in {} |-> 0]

\* TelemetryData::reset: no name, the whole sections free, registration
\* available, the cache empty.
TelemetryDataReset ==
    [names |-> <<>>,
     nextFreeNameOffset |-> 0,
     startDataSection |-> NameSectionSize,
     nextFreeDataOffset |-> NameSectionSize,
     isRegisteringAvailable |-> TRUE,
     entriesMap_ |-> NoEntries]

\* TelemetryData::findEntry: the rank of the name in the name section, -1
\* when it is not there.
findEntry(td, variableName) ==
    IF \E i \in 1..Len(td.names) : td.names[i] = variableName
    THEN (CHOOSE i \in 1..Len(td.names) : td.names[i] = variableName) - 1
    ELSE -1

\* No position written to positionInBufferOut.
NoPosition == -1

RegisterResult(code, position, td) ==
    [code |-> code, position |-> position, data |-> td]

RegisteringRefused_Never(td) == FALSE

\* TelemetryData.tpp:41
RegisteringRefused(td) == ~td.isRegisteringAvailable

\* TelemetryData::internalRegisterVariable<T>, TelemetryData.tpp:16-64
internalRegisterVariable(td, variableName) ==
    IF variableName \in DOMAIN td.entriesMap_
    THEN RegisterResult(SUCCESS, td.entriesMap_[variableName], td)
    ELSE IF findEntry(td, variableName) # -1
    THEN LET address == td.startDataSection
                            + SizeOfT * findEntry(td, variableName)
         IN  RegisterResult(SUCCESS, address,
                 [td EXCEPT !.entriesMap_ =
                     MapAssign(td.entriesMap_, variableName, address)])
    ELSE IF RegisteringRefused(td)
    THEN RegisterResult(ERROR_GENERIC, NoPosition, td)
    ELSE IF td.nextFreeNameOffset + Len(variableName) + 1
                >= td.startDataSection
    THEN RegisterResult(ERROR_GENERIC, NoPosition, td)
    ELSE RegisterResult(SUCCESS, td.nextFreeDataOffset,
             [td EXCEPT
                 !.names = Append(@, variableName),
                 !.nextFreeNameOffset = @ + Len(variableName) + 1,
                 !.entriesMap_ = MapAssign(@, variableName,
                                           td.nextFreeDataOffset),
                 !.nextFreeDataOffset = @ + SizeOfT])

\* Engine::configureTelemetry, Engine.cc:159-162, with the default
\* telemetry options reduced to enableEnergy: telemetrySender_ registers
\* "energy".
configureTelemetry(td) == internalRegisterVariable(td, "energy").data

\* TelemetryRecorder::initialize, called at Engine.cc:416: writing the
\* header locks the registration of new variables.
recorderInitialize(td) == [td EXCEPT !.isRegisteringAvailable = FALSE]

\* What start makes of the telemetry: the stop() of reset has reset it if a
\* simulation was running (Engine.cc:277), then Engine.cc:412-416.
StartTelemetry ==
    recorderInitialize(configureTelemetry(
        IF lockModel_ THEN TelemetryDataReset ELSE telemetryData_))

START_CONSTANTS == "StartConstants"

START_COLUMNS == "StartColumns"

START_DATA == "StartData"

GLOBAL_TIME == "Global.Time"

\* The integer columns of a record: the iteration counter.
IntNames == <<"Global.Iter">>

\* The header getLogData returns, as writeLogTxt reads it
\* (Engine.cc:1119-1131): the flag of the constants, the constants, the flag
\* of the columns, the names of the columns in the order of the columns of
\* the matrix (Engine.cc:1056-1070: time, integers, floats), the flag of the
\* data.
getHeader(td) ==
    <<START_CONSTANTS, "NumIntEntries", "NumFloatEntries", START_COLUMNS,
      GLOBAL_TIME>> \o IntNames \o td.names \o <<START_DATA>>

\* Nothing written by the current call: no position, no column read, no
\* vector returned.
\* No contact force computed yet: depth and v are the depth and the velocity
\* of the contact frame, f the force returned, blendingLaw the factor it has
\* been multiplied by.
NoContact ==
    [depth |-> 0, v |-> <<0, 0, 0>>, f |-> <<0, 0, 0>>, blendingLaw |-> "none"]

NoOut ==
    [position |-> NoPosition, col |-> <<>>, fieldData |-> "none",
     contact |-> NoContact]

Init ==
    /\ isInitialized_ = FALSE
    /\ model_ = FALSE
    /\ controller_ = FALSE
    /\ lockModel_ = FALSE
    /\ isTelemetryConfigured_ = FALSE
    /\ telemetryData_ = TelemetryDataReset
    /\ logHeader = <<>>
    /\ engineOptionsHolder_ = getDefaultOptions
    /\ engineOptions_ = getDefaultOptions
    /\ stepperUpdatePeriod_ = 0
    /\ stepperState_ = stepperState_t
    /\ stepperStateLast_ = stepperState_t
    /\ forcesImpulse_ = EmptyMap
    /\ forceImpulseNextIt_ = ItEnd
    /\ forcesProfile_ = 0
    /\ modelIsReset = TRUE
    /\ controllerIsReset = TRUE
    /\ randGenerator = "seeded"
    /\ log = <<>>
    /\ pc = "idle"
    /\ lastOp = "Engine"
    /\ lastLocked = FALSE
    /\ ret = VOID
    /\ loc = NoLoc
    /\ sim = NoSim
    /\ cb = NoCallback
    /\ overwritten = <<>>
    /\ out = NoOut

(***************************************************************************)
(* Calls.  An operation of the interface is called from the idle state;    *)
(* Return ends it with a value.                                            *)
(***************************************************************************)
Begin(op) ==
    /\ pc = "idle"
    /\ lastOp' = op
    /\ lastLocked' = lockModel_
    /\ cb' = NoCallback

Enter(op) == Begin(op) /\ out' = NoOut

Call(op) == Enter(op) /\ overwritten' = <<>>

Return(code) == pc' = "idle" /\ ret' = code

\* The process stops on a memory fault: no operation follows.
Crash == pc' = "crashed" /\ ret' = CRASH

\* The abstract value of vectorN_t::Zero(nx).
XZero == XVal("zero")

\* Engine::updateTelemetry: the record flushDataSnapshot appends.
LogRecord(s) == [t |-> s.t, iter |-> s.iter]

(***************************************************************************)
(* Engine::initialize                                                      *)
(***************************************************************************)
Initialize(modelIsInitialized, controllerIsInitialized) ==
    /\ Call("initialize")
    /\ IF ~modelIsInitialized
       THEN /\ Return(ERROR_INIT_FAILED)
            /\ UNCHANGED <<bindingVars, optionVars, stepperState_>>
       ELSE /\ model_' = TRUE
            /\ stepperState_' =
                   stepperStateInitialize(stepperState_, XZero,
                                          MIN_SIMULATION_TIMESTEP)
            /\ IF ~controllerIsInitialized
               THEN /\ Return(ERROR_INIT_FAILED)
                    /\ UNCHANGED <<isInitialized_, controller_, optionVars>>
               ELSE LET r == setOptions(engineOptionsHolder_)
                    IN  /\ controller_' = TRUE
                        /\ engineOptionsHolder_' = r.holder
                        /\ engineOptions_' = r.typed
                        /\ stepperUpdatePeriod_' = r.period
                        /\ isInitialized_' = TRUE
                        /\ Return(SUCCESS)
    /\ UNCHANGED <<resetVars, lockVars, forceVars, stepperStateLast_, log,
                   callVars>>

(***************************************************************************)
(* Engine::setOptions, Engine::registerForceImpulse and                    *)
(* Engine::registerForceProfile                                            *)
(***************************************************************************)
SetOptions(o) ==
    /\ Call("setOptions")
    /\ LET r == setOptions(o)
       IN  /\ engineOptionsHolder_' = r.holder
           /\ engineOptions_' = r.typed
           /\ stepperUpdatePeriod_' = r.period
           /\ Return(r.code)
    /\ UNCHANGED <<bindingVars, resetVars,
                   lockVars, forceVars, stateVars, callVars>>

\* Engine.cc:888 and Engine.cc:902
RegisterRefused_NoCheck == FALSE

RegisterRefused == lockModel_

RegisterForceImpulse(t, dt, F) ==
    /\ Enter("registerForceImpulse")
    /\ \/ RegisterRefused
       \/ t \in DOMAIN forcesImpulse_
       \/ Cardinality(DOMAIN forcesImpulse_) < MaxImpulses
    /\ IF RegisterRefused
       THEN /\ Return(ERROR_GENERIC)
            /\ UNCHANGED forcesImpulse_
            /\ overwritten' = <<>>
       ELSE /\ forcesImpulse_' =
                   MapAssign(forcesImpulse_, t, [dt |-> dt, F |-> F])
            /\ overwritten' = IF t \in DOMAIN forcesImpulse_
                              THEN <<forcesImpulse_[t]>>
                              ELSE <<>>
            /\ Return(SUCCESS)
    /\ UNCHANGED <<bindingVars, resetVars,
                   optionVars, lockVars, forceImpulseNextIt_,
                   forcesProfile_, stateVars, callVars>>

RegisterForceProfile ==
    /\ Call("registerForceProfile")
    /\ RegisterRefused \/ forcesProfile_ < MaxProfiles
    /\ IF RegisterRefused
       THEN /\ Return(ERROR_GENERIC)
            /\ UNCHANGED forcesProfile_
       ELSE /\ forcesProfile_' = forcesProfile_ + 1
            /\ Return(SUCCESS)
    /\ UNCHANGED <<bindingVars, resetVars,
                   optionVars, lockVars, forcesImpulse_,
                   forceImpulseNextIt_, stateVars, callVars>>

(***************************************************************************)
(* Engine::stop and Engine::reset                                          *)
(***************************************************************************)
\* Engine::stop: the lock is released, the telemetry is reset; the records
\* of the log are kept.
StopEffect ==
    /\ lockModel_' = FALSE
    /\ isTelemetryConfigured_' =
           IF lockModel_ THEN FALSE ELSE isTelemetryConfigured_
    /\ telemetryData_' =
           IF lockModel_ THEN TelemetryDataReset ELSE telemetryData_
    /\ logHeader' = logHeader

Stop ==
    /\ Call("stop")
    /\ StopEffect
    /\ Return(VOID)
    /\ UNCHANGED <<bindingVars, resetVars,
                   optionVars, forceVars, stateVars, callVars>>

\* Engine::reset, lines 226-232: the force registers.
ResetForces(resetDynamicForceRegister) ==
    IF resetDynamicForceRegister
    THEN /\ forcesImpulse_' = EmptyMap
         /\ forceImpulseNextIt_' = MapBegin(EmptyMap)
         /\ forcesProfile_' = 0
    ELSE UNCHANGED forceVars

ResetRand_Always(resetRandomNumbers) == "seeded"

\* Engine::reset, lines 234-238: resetRandGenerators(randomSeed) puts the
\* generator back at the start of the sequence of the seed.
ResetRand(resetRandomNumbers) ==
    IF resetRandomNumbers THEN "seeded" ELSE randGenerator

\* Engine::reset, lines 240-242: model_->reset() and controller_->reset(),
\* on the objects that exist.
ResetModel ==
    /\ modelIsReset' = (model_ \/ modelIsReset)
    /\ controllerIsReset' = ((model_ /\ controller_) \/ controllerIsReset)

\* Engine::reset(resetRandomNumbers, resetDynamicForceRegister); the public
\* reset(resetDynamicForceRegister) is reset(true, resetDynamicForceRegister).
\* model_->reset() and controller_->reset() go through a null pointer on an
\* engine that has no model or no controller: the process stops there, or
\* the calls have no effect and reset goes on.
Reset(resetRandomNumbers, resetDynamicForceRegister) ==
    /\ Call("reset")
    /\ ResetForces(resetDynamicForceRegister)
    /\ randGenerator' = ResetRand(resetRandomNumbers)
    /\ ResetModel
    /\ IF model_ /\ controller_
       THEN /\ StopEffect
            /\ Return(VOID)
       ELSE \/ /\ Crash
               /\ UNCHANGED lockVars
            \/ /\ StopEffect
               /\ Return(VOID)
    /\ UNCHANGED <<bindingVars, optionVars, stateVars, callVars>>

(***************************************************************************)
(* Engine::start                                                           *)
(***************************************************************************)
\* Engine.cc:258-272, on an engine whose model_ is not null.
StartCode(sizeOk) ==
    IF ~sizeOk THEN ERROR_BAD_INPUT
    ELSE IF ~isInitialized_ THEN ERROR_INIT_FAILED
    ELSE SUCCESS

InitialTimestep_DtMax == engineOptions_.dtMax

\* Engine.cc:350-359
InitialTimestep ==
    IF stepperUpdatePeriod_ > MIN_SIMULATION_TIMESTEP
    THEN stepperUpdatePeriod_
    ELSE engineOptions_.dtMax

\* telemetryRecorder_->initialize() followed by updateTelemetry(): the
\* records of the previous simulation are dropped.
StartLog_KeepOld(s) == Append(log, LogRecord(s))

StartLog(s) == <<LogRecord(s)>>

\* Engine.cc:381-405: model_->setSensorsData draws the noise of the sensors
\* from the generator, which is then no longer at the start of the sequence
\* of the seed: it has served one simulation, or more than one.
RandDraw(g) == IF g = "seeded" THEN "one_run" ELSE "several_runs"

StartCursor_Kept(m) == forceImpulseNextIt_

\* Engine.cc:331-332: forceImpulseNextIt_ = forcesImpulse_.begin()
StartCursor(m) == MapBegin(m)

\* Engine.cc:274-423, the body of a start whose checks passed.
StartEffect(xInit, resetRandomNumbers, resetDynamicForceRegister) ==
    LET s0 == stepperStateInitialize(stepperState_, xInit, InitialTimestep)
    IN  /\ randGenerator' = RandDraw(ResetRand(resetRandomNumbers))
        /\ modelIsReset' = FALSE
        /\ controllerIsReset' = FALSE
        /\ forcesImpulse_' =
               IF resetDynamicForceRegister THEN EmptyMap ELSE forcesImpulse_
        /\ forcesProfile_' =
               IF resetDynamicForceRegister THEN 0 ELSE forcesProfile_
        /\ forceImpulseNextIt_' = StartCursor(forcesImpulse_')
        /\ lockModel_' = TRUE
        /\ isTelemetryConfigured_' = TRUE
        /\ telemetryData_' = StartTelemetry
        /\ logHeader' = getHeader(StartTelemetry)
        /\ stepperState_' = s0
        /\ log' = StartLog(s0)
        /\ stepperStateLast_' = s0

Start(xInit, sizeOk, resetRandomNumbers, resetDynamicForceRegister) ==
    /\ Call("start")
    /\ IF ~model_
       THEN \* model_->nx() reads through a null pointer
            /\ \/ Crash
               \/ Return(ERROR_INIT_FAILED)
               \/ Return(ERROR_BAD_INPUT)
            /\ UNCHANGED <<lockVars, forceVars, stateVars, resetVars>>
       ELSE IF StartCode(sizeOk) = SUCCESS
            THEN /\ StartEffect(xInit, resetRandomNumbers,
                                resetDynamicForceRegister)
                 /\ Return(SUCCESS)
            ELSE /\ Return(StartCode(sizeOk))
                 /\ UNCHANGED <<lockVars, forceVars, stateVars, resetVars>>
    /\ UNCHANGED <<bindingVars, optionVars, callVars>>

(***************************************************************************)
(* The integrators (Engine.h:36-64 and boost's controlled dopri5 stepper). *)
(* try_step(system, x, dxdt, t, dt) is a relation: the accepted state is   *)
(* any value the dynamics can produce, a NaN included; the adaptive        *)
(* stepper may reject a step longer than AcceptedDt and then shortens dt,  *)
(* and may lengthen dt when it accepts.                                    *)
(***************************************************************************)
\* The values of x an accepted step can produce from x.
NextX(x) == IF x.nan THEN {XNaN("step")} ELSE {XVal("step"), XNaN("step")}

\* Engine.cc:845-858: the impulses whose force computeExternalForces(t, x,
\* fext) adds to fext, by their start times.
computeExternalForces(t) ==
    IF forceImpulseNextIt_.end
    THEN {}
    ELSE LET tForceImpulseNext == forceImpulseNextIt_.key
             dt == forcesImpulse_[tForceImpulseNext].dt
         IN  IF tForceImpulseNext <= t /\ t <= tForceImpulseNext + dt
             THEN {tForceImpulseNext}
             ELSE {}

\* Engine.cc:845-848: the positions of the cursor computeExternalForces
\* reads an impulse through.
CursorReads ==
    IF forceImpulseNextIt_.end THEN {} ELSE {forceImpulseNextIt_}

\* A call made by computeSystemDynamics: a is the buffer the acceleration
\* handed to the call is read from, "none" when the call takes none.
Stage(name, a) == [name |-> name, a |-> a]

\* Engine.cc:1274-1279
SensorsStage ==
    IF engineOptions_.sensorsUpdatePeriod < MIN_SIMULATION_TIMESTEP
    THEN <<Stage("setSensorsData", "stepperStateLast_")>>
    ELSE <<>>

CommandStage_Always == <<Stage("computeCommand", "none")>>

\* Engine.cc:1281-1286
CommandStage ==
    IF engineOptions_.controllerUpdatePeriod < MIN_SIMULATION_TIMESTEP
    THEN <<Stage("computeCommand", "none")>>
    ELSE <<>>

\* Engine.cc:1250-1319: the calls of computeSystemDynamics(t, x, dxdt), in
\* their order, and the impulses computeExternalForces has applied at t.
computeSystemDynamics(t) ==
    [t        |-> t,
     impulses |-> computeExternalForces(t),
     reads    |-> CursorReads,
     stages   |-> <<Stage("computeForwardKinematics", "stepperState_"),
                    Stage("computeExternalForces", "none")>>
                  \o SensorsStage
                  \o CommandStage
                  \o <<Stage("computeMotorsTorques", "stepperStateLast_"),
                       Stage("computeInternalDynamics", "none"),
                       Stage("u", "none"),
                       Stage("aba", "none")>>]

\* Engine.cc:572-578: the functor system(x, dxdt, t) handed to try_step.
System(t) == computeSystemDynamics(t)

\* fext is the last evaluation of the dynamics that try_step has made.
TryResult(res, t, dt, x, fext) ==
    [res |-> res, t |-> t, dt |-> dt, x |-> x, fext |-> fext]

\* explicit_euler::try_step: t += dt; system(x, dxdt, t); x += dt * dxdt.
EulerTryStep(t, dt, x) ==
    {TryResult("success", Fl(t + dt), dt, x2, System(Fl(t + dt))) :
         x2 \in NextX(x)}

\* controlled_runge_kutta<runge_kutta_dopri5>::try_step: the last stage
\* evaluates the dynamics at t + dt, whether the step is accepted or not.
DopriTryStep(t, dt, x) ==
    {TryResult("success", Fl(t + dt), dt2, x2, System(Fl(t + dt))) :
         dt2 \in {dt, 2 * dt}, x2 \in NextX(x)}
    \cup (IF dt > AcceptedDt
          THEN {TryResult("fail", t, dt \div 2, x, System(Fl(t + dt)))}
          ELSE {})

\* boost::apply_visitor over stepper_
TryStep(odeSolver, t, dt, x) ==
    IF odeSolver = "explicit_euler"
    THEN EulerTryStep(t, dt, x)
    ELSE DopriTryStep(t, dt, x)

(***************************************************************************)
(* Engine::step                                                            *)
(***************************************************************************)
\* step hands control back: to simulate's loop, which stops the simulation
\* when the code is an error, or to the caller.
StepReturn(code) ==
    /\ loc' = NoLoc
    /\ IF sim.active
       THEN IF code = SUCCESS
            THEN /\ pc' = "simulate"
                 /\ ret' = PENDING
                 /\ UNCHANGED <<sim, lockVars>>
            ELSE /\ StopEffect
                 /\ Return(code)
                 /\ sim' = NoSim
       ELSE /\ Return(code)
            /\ UNCHANGED <<sim, lockVars>>

\* failed_step_checker::operator() throws step_adjustment_error; nothing
\* catches it in step nor in simulate.
StepThrow ==
    /\ loc' = NoLoc
    /\ sim' = NoSim
    /\ pc' = "idle"
    /\ ret' = EXCEPTION
    /\ UNCHANGED lockVars

\* Engine.cc:505-519
StepCode_NoLock ==
    IF ~isInitialized_ THEN ERROR_INIT_FAILED
    ELSE SUCCESS

StepCode ==
    IF ~isInitialized_ THEN ERROR_INIT_FAILED
    ELSE IF ~lockModel_ THEN ERROR_GENERIC
    ELSE SUCCESS

\* Engine.cc:524, the NaN check at entry.
StepSeesNaN_NoCheck == FALSE

StepSeesNaN == stepperState_.x.nan

DefaultStepSize_SensorsFirst ==
    IF GtEPS(engineOptions_.sensorsUpdatePeriod)
    THEN engineOptions_.sensorsUpdatePeriod
    ELSE IF GtEPS(engineOptions_.controllerUpdatePeriod)
         THEN engineOptions_.controllerUpdatePeriod
         ELSE engineOptions_.dtMax

\* Engine.cc:541-560
DefaultStepSize ==
    IF GtEPS(engineOptions_.controllerUpdatePeriod)
    THEN engineOptions_.controllerUpdatePeriod
    ELSE IF GtEPS(engineOptions_.sensorsUpdatePeriod)
         THEN engineOptions_.sensorsUpdatePeriod
         ELSE engineOptions_.dtMax

\* Engine.cc:540-566: stepSize_true, the length of the step once the default
\* has been substituted and the cumulated rounding error taken off.
StepSizeTrue(stepSize) ==
    Fl((IF LtEPS(stepSize) THEN DefaultStepSize ELSE stepSize)
           - stepperState_.t_err)

StepEndTime_Absolute(stepSize) == StepSizeTrue(stepSize)

\* Engine.cc:567: tEnd = stepperState_.t + stepSize_true
StepEndTime(stepSize) == Fl(stepperState_.t + StepSizeTrue(stepSize))

\* Engine.cc:503-591, up to the integration loop.
step(stepSize) ==
    IF StepCode # SUCCESS
    THEN StepReturn(StepCode) /\ UNCHANGED stepperState_
    ELSE IF StepSeesNaN
    THEN StepReturn(ERROR_GENERIC) /\ UNCHANGED stepperState_
    ELSE IF GtEPS(stepSize) /\ stepSize < MIN_SIMULATION_TIMESTEP
    THEN StepReturn(ERROR_BAD_INPUT) /\ UNCHANGED stepperState_
    ELSE LET stepSize_true == StepSizeTrue(stepSize)
             tEnd == StepEndTime(stepSize)
         IN  /\ stepperState_' =
                    [stepperState_ EXCEPT
                        !.t_err = Fl(Fl(tEnd - stepperState_.t)
                                       - stepSize_true)]
             /\ loc' = [stepSize_true |-> stepSize_true,
                        t |-> stepperState_.t, tEnd |-> tEnd,
                        tNext |-> stepperState_.t, fails |-> 0,
                        fext |-> NoSystem, sampled |-> NoSampling,
                        reads |-> {}]
             /\ pc' = "step_loop"
             /\ ret' = PENDING
             /\ UNCHANGED <<sim, lockVars>>

Step(stepSize) ==
    /\ Call("step")
    /\ StepCode # SUCCESS \/ StepSeesNaN \/ Len(log) < MaxLog
    /\ step(stepSize)
    /\ UNCHANGED <<bindingVars, resetVars,
                   optionVars, forceVars, stepperStateLast_,
                   log>>

\* Engine.cc:639-657: the positions of the cursor through which the pass
\* reads a start time or a duration: the cursor on entry (639-640), the
\* cursor right after ++forceImpulseNextIt_ (644), the position that
\* follows the cursor (655).
ImpulseHorizonReads(t) ==
    IF forceImpulseNextIt_.end
    THEN {}
    ELSE LET k0 == forceImpulseNextIt_.key
             it == IF t > k0 + forcesImpulse_[k0].dt
                   THEN MapNext(forcesImpulse_, forceImpulseNextIt_)
                   ELSE forceImpulseNextIt_
         IN  {forceImpulseNextIt_, it}
             \cup (IF ~it.end /\ it.key <= t
                      /\ ~MapNext(forcesImpulse_, it).end
                   THEN {MapNext(forcesImpulse_, it)}
                   ELSE {})

\* Engine.cc:636-661: the cursor after the update, and tForceImpulseNext.
\* When ++forceImpulseNextIt_ reaches end(), the value read through it is
\* not used.
ImpulseHorizon(t, tEnd) ==
    IF forceImpulseNextIt_.end
    THEN [it |-> forceImpulseNextIt_, tNext |-> tEnd]
    ELSE LET k0 == forceImpulseNextIt_.key
             it == IF t > k0 + forcesImpulse_[k0].dt
                   THEN MapNext(forcesImpulse_, forceImpulseNextIt_)
                   ELSE forceImpulseNextIt_
         IN  IF it.end
             THEN [it |-> it, tNext |-> tEnd]
             ELSE IF it.key > t
             THEN [it |-> it, tNext |-> it.key]
             ELSE IF ~MapNext(forcesImpulse_, it).end
             THEN [it |-> it, tNext |-> MapNext(forcesImpulse_, it).key]
             ELSE [it |-> it, tNext |-> tEnd]

\* Engine.cc:672-695: the next breakpoint of the update-period branch.
NextBreakpoint(t, tEnd, tForceImpulseNext) ==
    LET dtNextUpdatePeriod ==
            stepperUpdatePeriod_ - Fmod(t, stepperUpdatePeriod_)
        dtNextGlobal ==
            IF dtNextUpdatePeriod < MIN_SIMULATION_TIMESTEP
            THEN Min2(dtNextUpdatePeriod + stepperUpdatePeriod_,
                      tForceImpulseNext - t)
            ELSE Min2(dtNextUpdatePeriod, tForceImpulseNext - t)
    IN  IF tEnd - t <= dtNextGlobal
        THEN Fl(t + Fl(tEnd - t))
        ELSE Fl(t + dtNextGlobal)

ExitLog_Always(s) == Append(log, LogRecord(s))

\* Engine.cc:785-788: updateTelemetry() at the end of step, unless the
\* internal steps are logged.
ExitLog(s) ==
    IF engineOptions_.logInternalStepperSteps
    THEN log
    ELSE Append(log, LogRecord(s))

\* Engine.cc:777-788: the end of step.
StepExit ==
    LET s == [stepperState_ EXCEPT !.t = loc.tEnd]
    IN  /\ stepperState_' = s
        /\ log' = ExitLog(s)
        /\ StepReturn(SUCCESS)
        /\ UNCHANGED <<stepperStateLast_, forceImpulseNextIt_>>

SensorsSampled_EveryPass(t) ==
    /\ stepperUpdatePeriod_ > MIN_SIMULATION_TIMESTEP
    /\ GtEPS(engineOptions_.sensorsUpdatePeriod)

\* Engine.cc:601-610: the sensors are refreshed by this pass.
SensorsSampled(t) ==
    /\ stepperUpdatePeriod_ > MIN_SIMULATION_TIMESTEP
    /\ GtEPS(engineOptions_.sensorsUpdatePeriod)
    /\ LET sensorsUpdatePeriod == engineOptions_.sensorsUpdatePeriod
           dtNextSensorsUpdatePeriod ==
               sensorsUpdatePeriod - Fmod(t, sensorsUpdatePeriod)
       IN  \/ dtNextSensorsUpdatePeriod < MIN_SIMULATION_TIMESTEP
           \/ sensorsUpdatePeriod - dtNextSensorsUpdatePeriod
                  < MIN_SIMULATION_TIMESTEP

\* Engine.cc:613-621: the command is recomputed by this pass.
CommandSampled(t) ==
    /\ stepperUpdatePeriod_ > MIN_SIMULATION_TIMESTEP
    /\ GtEPS(engineOptions_.controllerUpdatePeriod)
    /\ LET controllerUpdatePeriod == engineOptions_.controllerUpdatePeriod
           dtNextControllerUpdatePeriod ==
               controllerUpdatePeriod - Fmod(t, controllerUpdatePeriod)
       IN  \/ dtNextControllerUpdatePeriod < MIN_SIMULATION_TIMESTEP
           \/ controllerUpdatePeriod - dtNextControllerUpdatePeriod
                  < MIN_SIMULATION_TIMESTEP

\* Engine.cc:596-633: the sampling of the sensors and of the command at the
\* head of a pass, before the cursor of the impulses is updated; the
\* dynamics is evaluated again when the command has changed, unless the
\* integrator is explicit Euler.
PeriodSampling(t) ==
    [t       |-> t,
     sensors |-> SensorsSampled(t),
     command |-> CommandSampled(t),
     dxdt    |-> IF /\ CommandSampled(t)
                    /\ engineOptions_.odeSolver # "explicit_euler"
                 THEN computeSystemDynamics(t)
                 ELSE NoSystem]

\* Engine.cc:594-697 and 741-747: one pass of the loop while(tEnd - t > EPS)
\* up to the first try_step.  A read through the cursor at end() either
\* gives a value, which the pass does not use, or ends the process.
StepLoop ==
    /\ pc = "step_loop"
    /\ IF GtEPS(loc.tEnd - loc.t)
       THEN LET h == ImpulseHorizon(loc.t, loc.tEnd)
                reads == ImpulseHorizonReads(loc.t)
                dt1 == Max2(stepperState_.dt, DEFAULT_SIMULATION_TIMESTEP)
            IN  /\ forceImpulseNextIt_' = h.it
                /\ \/ /\ IF GtEPS(stepperUpdatePeriod_)
                         THEN /\ stepperState_' =
                                     [stepperState_ EXCEPT !.dt = dt1]
                              /\ loc' = [loc EXCEPT !.tNext =
                                     NextBreakpoint(loc.t, loc.tEnd, h.tNext),
                                     !.sampled = PeriodSampling(loc.t),
                                     !.reads = reads]
                              /\ pc' = "step_period"
                         ELSE /\ stepperState_' = [stepperState_ EXCEPT !.dt =
                                     Min2(Min2(dt1, engineOptions_.dtMax),
                                          Min2(loc.tEnd - loc.t,
                                               h.tNext - loc.t))]
                              /\ loc' = [loc EXCEPT !.sampled =
                                     PeriodSampling(loc.t),
                                     !.reads = reads]
                              /\ pc' = "step_free"
                      /\ ret' = ret
                   \/ /\ \E r \in reads : r.end
                      /\ Crash
                      /\ stepperState_' = stepperState_
                      /\ loc' = [loc EXCEPT !.sampled = PeriodSampling(loc.t),
                                            !.reads = reads]
                /\ UNCHANGED <<stepperStateLast_, log, sim, lockVars>>
       ELSE StepExit
    /\ UNCHANGED <<bindingVars, resetVars,
                   optionVars, forcesImpulse_, forcesProfile_,
                   labelVars, cb>>

AcceptStep_SnapshotFirst(r) ==
    LET s == [stepperState_ EXCEPT !.t = r.t, !.iter = @ + 1,
                                   !.dt = r.dt, !.x = r.x]
    IN  /\ stepperState_' = s
        /\ log' = IF engineOptions_.logInternalStepperSteps
                  THEN Append(log, LogRecord(s))
                  ELSE log
        /\ stepperStateLast_' = [s EXCEPT !.t = stepperState_.t,
                                          !.iter = stepperState_.iter]
        /\ loc' = [loc EXCEPT !.t = r.t, !.fails = 0, !.fext = r.fext]

\* Engine.cc:713-734 and 758-768: an accepted try_step.
AcceptStep(r) ==
    LET s == [stepperState_ EXCEPT !.t = r.t, !.iter = @ + 1,
                                   !.dt = r.dt, !.x = r.x]
    IN  /\ stepperState_' = s
        /\ log' = IF engineOptions_.logInternalStepperSteps
                  THEN Append(log, LogRecord(s))
                  ELSE log
        /\ stepperStateLast_' = s
        /\ loc' = [loc EXCEPT !.t = r.t, !.fails = 0, !.fext = r.fext]

\* Engine.cc:735-738 and 769-772: a rejected try_step; the failure checker
\* throws when called more than MaxFailedSteps times in a row.
RejectStep(r) ==
    /\ stepperState_' = [stepperState_ EXCEPT !.dt = r.dt]
    /\ UNCHANGED <<stepperStateLast_, log>>
    /\ IF loc.fails >= MaxFailedSteps
       THEN StepThrow
       ELSE /\ loc' = [loc EXCEPT !.fails = @ + 1, !.fext = r.fext]
            /\ UNCHANGED <<pc, ret, sim, lockVars>>

PeriodDt_NoCap ==
    LET dtA == Min2(stepperState_.dt, loc.tNext - loc.t)
    IN  IF LtMinStepperTimestep(loc.tNext - (loc.t + dtA))
        THEN loc.tNext - loc.t
        ELSE dtA

\* Engine.cc:700-708: the dt handed to try_step in the update-period branch.
PeriodDt ==
    LET dtA == Min2(Min2(stepperState_.dt, loc.tNext - loc.t),
                    engineOptions_.dtMax)
    IN  IF LtMinStepperTimestep(loc.tNext - (loc.t + dtA))
        THEN loc.tNext - loc.t
        ELSE dtA

\* Engine.cc:698-739: one pass of the loop while(tNext - t > EPS).
StepPeriod ==
    /\ pc = "step_period"
    /\ IF GtEPS(loc.tNext - loc.t)
       THEN /\ stepperState_.iter < MaxIter
            /\ \E r \in TryStep(engineOptions_.odeSolver, loc.t, PeriodDt,
                                stepperState_.x) :
                   IF r.res = "success"
                   THEN /\ AcceptStep(r)
                        /\ UNCHANGED <<pc, ret, sim, lockVars>>
                   ELSE RejectStep(r)
       ELSE /\ pc' = "step_loop"
            /\ UNCHANGED <<stateVars, loc, ret, sim, lockVars>>
    /\ UNCHANGED <<bindingVars, resetVars,
                   optionVars, forceVars, labelVars, cb>>

\* Engine.cc:749-773: one pass of the loop while(res == fail).
StepFree ==
    /\ pc = "step_free"
    /\ stepperState_.iter < MaxIter
    /\ \E r \in TryStep(engineOptions_.odeSolver, loc.t, stepperState_.dt,
                        stepperState_.x) :
           IF r.res = "success"
           THEN /\ AcceptStep(r)
                /\ pc' = "step_loop"
                /\ UNCHANGED <<ret, sim, lockVars>>
           ELSE RejectStep(r)
    /\ UNCHANGED <<bindingVars, resetVars,
                   optionVars, forceVars, labelVars, cb>>

(***************************************************************************)
(* Engine::simulate                                                        *)
(***************************************************************************)
SimulateCode_OneMs(tEnd) ==
    IF tEnd < 10000 THEN ERROR_BAD_INPUT
    ELSE IF ~isInitialized_ THEN ERROR_INIT_FAILED
    ELSE SUCCESS

\* Engine.cc:432-444
SimulateCode(tEnd) ==
    IF tEnd < MIN_SIMULATION_DURATION THEN ERROR_BAD_INPUT
    ELSE IF ~isInitialized_ THEN ERROR_INIT_FAILED
    ELSE SUCCESS

\* Engine.cc:428-450 and, when the loop is not entered, 496-500.
Simulate(tEnd, xInit, sizeOk) ==
    /\ Call("simulate")
    /\ IF SimulateCode(tEnd) = SUCCESS /\ StartCode(sizeOk) = SUCCESS
       THEN /\ StartEffect(xInit, FALSE, FALSE)
            /\ sim' = [active |-> TRUE, tEnd |-> tEnd]
            /\ pc' = "simulate"
            /\ ret' = PENDING
       ELSE /\ StopEffect
            /\ Return(IF SimulateCode(tEnd) # SUCCESS
                      THEN SimulateCode(tEnd)
                      ELSE StartCode(sizeOk))
            /\ UNCHANGED <<forceVars, stateVars, sim, resetVars>>
    /\ UNCHANGED <<bindingVars, optionVars, loc>>

SimulateBreak_Error ==
    /\ StopEffect
    /\ Return(ERROR_GENERIC)
    /\ sim' = NoSim
    /\ UNCHANGED <<stepperState_, loc>>

\* Engine.cc:496-500 after a break of the loop.
SimulateBreak ==
    /\ StopEffect
    /\ Return(SUCCESS)
    /\ sim' = NoSim
    /\ UNCHANGED <<stepperState_, loc>>

\* Engine.cc:466: callbackFct_(stepperState_.t, stepperState_.x) returned
\* callbackResult.
Callback(callbackResult) ==
    [cb EXCEPT !.n = @ + 1, !.res = callbackResult,
               !.t = stepperState_.t, !.x = stepperState_.x]

SimulateContinues_IgnoreCallback(callbackResult) ==
    ~(/\ engineOptions_.iterMax > 0
      /\ stepperStateLast_.iter >= engineOptions_.iterMax)

\* Engine.cc:466-481: neither of the two breaks that follow the evaluation
\* of the callback is taken.
SimulateContinues(callbackResult) ==
    /\ callbackResult
    /\ ~(/\ engineOptions_.iterMax > 0
         /\ stepperStateLast_.iter >= engineOptions_.iterMax)

\* Engine.cc:453-494: one pass of the integration loop.  The callback is
\* the user's: it returns either value.
SimulateLoop ==
    /\ pc = "simulate"
    /\ IF sim.tEnd - stepperState_.t < MIN_SIMULATION_TIMESTEP
       THEN SimulateBreak /\ UNCHANGED cb
       ELSE \E callbackResult \in BOOLEAN :
              IF SimulateContinues(callbackResult)
              THEN /\ step(IF stepperUpdatePeriod_ > 0
                           THEN Min2(stepperUpdatePeriod_,
                                     sim.tEnd - stepperState_.t)
                           ELSE Min2(engineOptions_.dtMax,
                                     sim.tEnd - stepperState_.t))
                   /\ cb' = [Callback(callbackResult) EXCEPT !.steps = @ + 1]
              ELSE SimulateBreak /\ cb' = Callback(callbackResult)
    /\ UNCHANGED <<bindingVars, resetVars,
                   optionVars, forceVars, stepperStateLast_,
                   log, labelVars>>

(***************************************************************************)
(* TelemetryData::internalRegisterVariable, called by the objects that     *)
(* share telemetryData_ (the controller, the model, their user), and       *)
(* Engine::getLogFieldValue, called on what getLogData has returned.       *)
(***************************************************************************)
InternalRegisterVariable(variableName) ==
    /\ Begin("internalRegisterVariable")
    /\ overwritten' = <<>>
    /\ LET r == internalRegisterVariable(telemetryData_, variableName)
       IN  /\ telemetryData_' = r.data
           /\ out' = [NoOut EXCEPT !.position = r.position]
           /\ Return(r.code)
    /\ UNCHANGED <<bindingVars, resetVars, optionVars, forceVars, stateVars,
                   callVars, lockModel_, isTelemetryConfigured_, logHeader>>

\* std::find: the rank of the first element equal to e, Len(s) + 1 for end().
Find(s, e) ==
    IF \E i \in 1..Len(s) : s[i] = e
    THEN CHOOSE i \in 1..Len(s) :
             s[i] = e /\ \A j \in 1..(i - 1) : s[j] # e
    ELSE Len(s) + 1

\* The names of the columns in a header: what lies between the flag of the
\* columns and the flag of the data.
ColumnNames(header) ==
    SubSeq(header, Find(header, START_COLUMNS) + 1, Len(header) - 1)

\* logDataRawToEigenMatrix, Engine.cc:1056: the matrix has one column for
\* the time, one per integer and one per float, that is one per column name.
logDataCols(header) == Len(ColumnNames(header))

\* Engine.cc:1097-1101: std::distance(start, iterator) - 1
LogColumn(header, fieldName) ==
    (Find(header, fieldName) - Find(header, START_COLUMNS)) - 1

\* Engine::getLogFieldValue, Engine.cc:1091-1105.  logData.col(i) with i
\* outside the matrix is an assertion failure or a read outside the matrix,
\* which returns anything.
GetLogFieldValue(fieldName) ==
    /\ Begin("getLogFieldValue")
    /\ overwritten' = <<>>
    /\ logHeader # <<>>
    /\ IF Find(logHeader, fieldName) # Len(logHeader) + 1
       THEN LET col == LogColumn(logHeader, fieldName)
            IN  IF col >= 0 /\ col < logDataCols(logHeader)
                THEN /\ out' = [NoOut EXCEPT !.col = <<col>>,
                                             !.fieldData = "column"]
                     /\ Return(VOID)
                ELSE \/ /\ out' = [NoOut EXCEPT !.col = <<col>>]
                        /\ Crash
                     \/ /\ out' = [NoOut EXCEPT !.col = <<col>>,
                                                !.fieldData = "garbage"]
                        /\ Return(VOID)
       ELSE /\ out' = [NoOut EXCEPT !.fieldData = "empty"]
            /\ Return(VOID)
    /\ UNCHANGED <<bindingVars, resetVars, optionVars, forceVars, stateVars,
                   callVars, lockVars>>

(***************************************************************************)
(* Engine::computeContactDynamics, on a flat ground: zGround = 0 and       *)
(* nGround = (0, 0, 1), so that depth is the height of the frame, vDepth   *)
(* the third component of its velocity and vTangential the two others.     *)
(* Velocities are in units of 1e-2 m/s, and the friction coefficients in   *)
(* tenths: the product of a coefficient by a force is divided by 10.       *)
(***************************************************************************)
\* Eigen's norm(), for the vectors whose norm is an integer.
Norm(v) ==
    LET n2 == v[1] * v[1] + v[2] * v[2] + v[3] * v[3]
    IN  CHOOSE n \in 0..n2 : n * n = n2

\* Engine.cc:1378-1397
FrictionCoeff(vNorm) ==
    LET c == engineOptions_
    IN  IF vNorm >= c.dryFrictionVelEps
        THEN IF 2 * vNorm < 3 * c.dryFrictionVelEps
             THEN ((-2) * (c.frictionDry - c.frictionViscous) * vNorm)
                      \div c.dryFrictionVelEps
                  + 3 * c.frictionDry - 2 * c.frictionViscous
             ELSE c.frictionViscous
        ELSE (c.frictionDry * vNorm) \div c.dryFrictionVelEps

\* Engine.cc:1399: -fextTangential * vTangential
Tangential(fextTangential, vTangential) ==
    [i \in 1..3 |-> (-fextTangential) * vTangential[i]]

\* Engine.cc:1337-1414: the force in the world frame, before the blending
\* factor, and the blending factor.
computeContactDynamics(depth, vFrameInWorld) ==
    IF depth < 0
    THEN LET vDepth == vFrameInWorld[3]
             fextNormal ==
                 (IF vDepth < 0 THEN -(engineOptions_.damping * vDepth) ELSE 0)
                 - engineOptions_.stiffness * depth
             vTangential == <<vFrameInWorld[1], vFrameInWorld[2], 0>>
             vNorm == Norm(vTangential)
             fextTangential == (FrictionCoeff(vNorm) * fextNormal) \div 10
             fT == Tangential(fextTangential, vTangential)
         IN  [depth |-> depth, v |-> vFrameInWorld,
              f |-> <<fT[1], fT[2], fextNormal>>,
              blendingLaw |-> IF GtEPS(engineOptions_.transitionEps)
                              THEN "tanh"
                              ELSE "none"]
    ELSE [depth |-> depth, v |-> vFrameInWorld, f |-> <<0, 0, 0>>,
          blendingLaw |-> "none"]

\* Engine.cc:826-837: computeExternalForces computes the contact force of a
\* contact frame, at each evaluation of the dynamics made by try_step.
ComputeContactDynamics(depth, vFrameInWorld) ==
    /\ pc \in {"step_period", "step_free"}
    /\ out' = [out EXCEPT !.contact =
                   computeContactDynamics(depth, vFrameInWorld)]
    /\ UNCHANGED <<bindingVars, resetVars, optionVars, forceVars, lockVars,
                   stateVars, callVars, pc, ret, cb, lastOp, lastLocked,
                   overwritten>>

(***************************************************************************)
(* Inputs of the calls.                                                    *)
(***************************************************************************)
WithOptions(dtMax, odeSolver, sensorsUpdatePeriod, controllerUpdatePeriod, iterMax, logInternalStepperSteps) ==
    [getDefaultOptions EXCEPT
        !.dtMax = dtMax,
        !.odeSolver = odeSolver,
        !.sensorsUpdatePeriod = sensorsUpdatePeriod,
        !.controllerUpdatePeriod = controllerUpdatePeriod,
        !.iterMax = iterMax,
        !.logInternalStepperSteps = logInternalStepperSteps]

\* dtMax: 0, just below 1e-6, 1e-6, 1e-3, 5e-3, just above 5e-3, 10e-3.
DtMaxInputs == {0, 9, 10, 10000, 50000, 50001, 100000}

SolverInputs == {"runge_kutta_dopri5", "explicit_euler", "rk45"}

\* periods: 0, 5e-7, 7e-4, 1e-3, 2e-3.
PeriodInputs == {0, 5, 7000, 10000, 20000}

\* The option sets that differ from the default one by one of the contact,
\* joint or world options.
AuxiliaryInputs ==
    {getDefaultOptions,
     [getDefaultOptions EXCEPT !.dryFrictionVelEps = -1],
     [getDefaultOptions EXCEPT !.transitionEps = -1],
     [getDefaultOptions EXCEPT !.boundTransitionEps = -1],
     [getDefaultOptions EXCEPT !.gravitySize = 5]}

\* The arguments of setOptions in the specification of the options: every
\* dtMax with every solver, and every pair of periods with every auxiliary
\* option set.
OptionInputs ==
    {[getDefaultOptions EXCEPT !.dtMax = d, !.odeSolver = s] :
        d \in DtMaxInputs, s \in SolverInputs}
    \cup
    {[a EXCEPT !.sensorsUpdatePeriod = ps, !.controllerUpdatePeriod = pc1] :
        a \in AuxiliaryInputs, ps \in PeriodInputs, pc1 \in PeriodInputs}

\* The arguments of setOptions in the specification of the simulation:
\* the default options; the adaptive integrator with 5e-3 s steps sampled
\* every 5e-3 s and 10e-3 s, capped at 2 iterations; the adaptive integrator
\* with 5e-3 s steps and no sampling; explicit Euler with 5e-3 s steps, no
\* sampling, logging every integrator step; explicit Euler with 1e-3 s steps
\* and sensors alone sampled every 2e-3 s, capped at 1 iteration; and an
\* option set that setOptions refuses (dtMax = 0).
RunOptionInputs ==
    {getDefaultOptions,
     WithOptions(50000, "runge_kutta_dopri5", 100000, 50000, 2, FALSE),
     WithOptions(10000, "explicit_euler", 20000, 0, 1, FALSE),
     WithOptions(50000, "runge_kutta_dopri5", 0, 0, DEFAULT_ITERMAX, FALSE),
     WithOptions(50000, "explicit_euler", 0, 0, DEFAULT_ITERMAX, TRUE),
     WithOptions(0, "runge_kutta_dopri5", 0, 0, DEFAULT_ITERMAX, FALSE)}

XInitInputs == {XVal("init"), XNaN("init")}

\* step sizes: the default one (-1 and 0), 5e-7 and 1e-3.
StepSizeInputs == {-1, 0, 5, 10000}

\* durations of simulate: 3e-3 and 5e-3.
DurationInputs == {30000, 50000}

\* The arguments of setOptions in the specification of the forces: the
\* default options, and the adaptive integrator with 5e-3 s steps sampled
\* every 5e-3 s.
ForceOptionInputs ==
    {getDefaultOptions,
     WithOptions(50000, "runge_kutta_dopri5", 0, 50000, DEFAULT_ITERMAX, FALSE)}

\* start times of the impulses: 2.5e-4 and 5e-4.
ImpulseTimeInputs == {2500, 5000}

\* durations of the impulses: 2.5e-4, so that the second impulse starts when
\* the first one ends.
ImpulseDurationInputs == {2500}

\* durations of the impulses registered twice: 2.5e-4 and 5e-4.
RegisterDurationInputs == {2500, 5000}

\* forces of the impulses, by name.
ImpulseForceInputs == {1, 2}

(***************************************************************************)
(* The specification of the simulation: the life cycle, step and simulate. *)
(***************************************************************************)
Next ==
    \/ \E m \in BOOLEAN, c \in BOOLEAN : Initialize(m, c)
    \/ \E o \in RunOptionInputs : SetOptions(o)
    \/ Stop
    \/ Reset(TRUE, FALSE)
    \/ \E x \in XInitInputs : Start(x, TRUE, FALSE, FALSE)
    \/ Start(XVal("init"), FALSE, FALSE, FALSE)
    \/ \E h \in StepSizeInputs : Step(h)
    \/ StepLoop
    \/ StepPeriod
    \/ StepFree
    \/ \E d \in DurationInputs, ok \in BOOLEAN :
           Simulate(d, XVal("init"), ok)
    \/ SimulateLoop

Spec == Init /\ [][Next]_vars

(***************************************************************************)
(* The specification of the options: the operations that read or write the *)
(* options, with every combination of option values.                       *)
(***************************************************************************)
NextOptions ==
    \/ \E m \in BOOLEAN, c \in BOOLEAN : Initialize(m, c)
    \/ \E o \in OptionInputs : SetOptions(o)
    \/ Stop
    \/ \E ok \in BOOLEAN : Start(XVal("init"), ok, FALSE, FALSE)

SpecOptions == Init /\ [][NextOptions]_vars

(***************************************************************************)
(* The specification of the forces: the registration of impulses and of    *)
(* profiles, and the operations that read or clear the registers.          *)
(***************************************************************************)
NextForces ==
    \/ Initialize(TRUE, TRUE)
    \/ \E o \in ForceOptionInputs : SetOptions(o)
    \/ \E t \in ImpulseTimeInputs, dt \in ImpulseDurationInputs :
           RegisterForceImpulse(t, dt, 1)
    \/ RegisterForceProfile
    \/ Stop
    \/ \E r \in BOOLEAN : Reset(TRUE, r)
    \/ \E ok \in BOOLEAN, r \in BOOLEAN : Start(XVal("init"), ok, TRUE, r)
    \/ \E h \in StepSizeInputs : Step(h)
    \/ StepLoop
    \/ StepPeriod
    \/ StepFree

SpecForces == Init /\ [][NextForces]_vars

(***************************************************************************)
(* The specification of the registration of impulses: impulses of several  *)
(* durations and forces are registered, some under a start time that is    *)
(* already in the map.  reset and start are called with each value of      *)
(* their two flags, as the engine and the classes derived from it can.     *)
(***************************************************************************)
NextRegister ==
    \/ Initialize(TRUE, TRUE)
    \/ \E t \in ImpulseTimeInputs, dt \in RegisterDurationInputs :
           \E F \in ImpulseForceInputs : RegisterForceImpulse(t, dt, F)
    \/ RegisterForceProfile
    \/ Stop
    \/ \E rrn \in BOOLEAN, r \in BOOLEAN : Reset(rrn, r)
    \/ \E rrn \in BOOLEAN, r \in BOOLEAN : Start(XVal("init"), TRUE, rrn, r)

SpecRegister == Init /\ [][NextRegister]_vars

(***************************************************************************)
(* The specification of a simulate that nothing interrupts: the callback   *)
(* returns true, the options set no cap on the iterations, try_step        *)
(* accepts every step and yields no NaN.  simulate is one synchronous      *)
(* call: once entered, each of its loops goes on to its next pass, which   *)
(* is what the weak fairness of the loop actions says.                     *)
(***************************************************************************)
\* iterMax: 0 and -1, no cap on the iterations; a controller update period
\* of 1e-3 and of 5e-3.
LiveOptionInputs ==
    {WithOptions(10000, "runge_kutta_dopri5", 0, 10000, -1, FALSE),
     WithOptions(50000, "explicit_euler", 0, 50000, 0, FALSE)}

\* Engine.cc:466: the callback returns true.
SimulateLoopCallbackTrue == SimulateLoop /\ cb'.res

\* try_step returns success, and a state without NaN.
\* The pass is not ended by a read through the cursor at end().
StepLoopReturns == StepLoop /\ pc' # "crashed"

IntegratorSucceeds ==
    /\ ret' # EXCEPTION
    /\ loc'.fails = 0
    /\ ~stepperState_'.x.nan

StepPeriodSucceeds == StepPeriod /\ IntegratorSucceeds

StepFreeSucceeds == StepFree /\ IntegratorSucceeds

NextLive ==
    \/ Initialize(TRUE, TRUE)
    \/ \E o \in LiveOptionInputs : SetOptions(o)
    \/ \E t \in ImpulseTimeInputs, dt \in ImpulseDurationInputs :
           RegisterForceImpulse(t, dt, 1)
    \/ \E d \in DurationInputs : Simulate(d, XVal("init"), TRUE)
    \/ SimulateLoopCallbackTrue
    \/ StepLoopReturns
    \/ StepPeriodSucceeds
    \/ StepFreeSucceeds

SpecLive ==
    /\ Init
    /\ [][NextLive]_vars
    /\ WF_vars(SimulateLoopCallbackTrue)
    /\ WF_vars(StepLoopReturns)
    /\ WF_vars(StepPeriodSucceeds)
    /\ WF_vars(StepFreeSucceeds)

(***************************************************************************)
(* The specification of the telemetry: variables are registered before,    *)
(* during and after the simulations, and columns of the log are asked for  *)
(* by name.                                                                *)
(***************************************************************************)
\* names of variables: "energy" is the one the engine registers.
VariableNameInputs == {"energy", "torque", "u"}

\* names asked of getLogFieldValue: columns, a name that is not in the
\* header, a constant of the header and its three flags.
FieldNameInputs ==
    {GLOBAL_TIME, "energy", "u", "other", "NumIntEntries", START_CONSTANTS,
     START_COLUMNS, START_DATA}

NextTelemetry ==
    \/ Initialize(TRUE, TRUE)
    \/ Start(XVal("init"), TRUE, FALSE, FALSE)
    \/ Stop
    \/ \E n \in VariableNameInputs : InternalRegisterVariable(n)
    \/ \E f \in FieldNameInputs : GetLogFieldValue(f)

SpecTelemetry == Init /\ [][NextTelemetry]_vars

(***************************************************************************)
(* The specification of the sampling: one simulation whose steps span      *)
(* several update periods, with every kind of pair of periods that         *)
(* setOptions accepts, and impulses that add breakpoints between the       *)
(* period boundaries.                                                      *)
(***************************************************************************)
\* (sensors, controller) periods: both continuous; one continuous and the
\* other 2e-3 s; both 2e-3 s; sensors 2e-3 s and controller 1e-3 s, and the
\* reverse; a period of exactly MIN_SIMULATION_TIMESTEP, alone or with a
\* period twice as long.
SamplingOptionInputs ==
    {WithOptions(10000, "runge_kutta_dopri5", 0, 20000, -1, FALSE),
     WithOptions(10000, "explicit_euler", 20000, 0, -1, FALSE),
     WithOptions(10000, "explicit_euler", 20000, 20000, -1, FALSE),
     WithOptions(10000, "runge_kutta_dopri5", 20000, 10000, -1, FALSE),
     WithOptions(10000, "explicit_euler", 10000, 20000, -1, FALSE),
     WithOptions(10000, "explicit_euler", MIN_SIMULATION_TIMESTEP, 0, -1, FALSE),
     WithOptions(10000, "explicit_euler", 0, MIN_SIMULATION_TIMESTEP, -1, FALSE),
     WithOptions(10000, "explicit_euler", MIN_SIMULATION_TIMESTEP,
                 2 * MIN_SIMULATION_TIMESTEP, -1, FALSE)}

\* step sizes: the default one, 15 e-7 s, 1e-3 s and 4e-3 s.
SamplingStepInputs == {-1, 15, 10000, 40000}

\* start times of the impulses: 2.5e-4 s, and 5e-7 s before 2e-3 s.
SamplingImpulseTimeInputs == {2500, 19995}

NextSampling ==
    \/ Initialize(TRUE, TRUE)
    \/ \E o \in SamplingOptionInputs : SetOptions(o)
    \/ \E t \in SamplingImpulseTimeInputs : RegisterForceImpulse(t, 2500, 1)
    \/ Start(XVal("init"), TRUE, TRUE, FALSE)
    \/ \E h \in SamplingStepInputs : Step(h)
    \/ StepLoop
    \/ StepPeriod
    \/ StepFree

SpecSampling == Init /\ [][NextSampling]_vars

(***************************************************************************)
(* The specification of the contacts: a simulation during which the        *)
(* contact force of a frame is computed, for frames above, on and below    *)
(* the ground, with tangential velocities in the three branches of the     *)
(* friction coefficient.                                                   *)
(***************************************************************************)
\* The default contact options without blending; the same with
\* dryFrictionVelEps = 2e-2 m/s and a sampled controller; the default ones.
ContactOptionInputs ==
    {[getDefaultOptions EXCEPT !.transitionEps = 0],
     [WithOptions(10000, "explicit_euler", 0, 10000, -1, FALSE)
        EXCEPT !.transitionEps = 0, !.dryFrictionVelEps = 2],
     getDefaultOptions}

\* heights of the frame above the ground
ContactDepthInputs == {-2, -1, 0, 1}

\* velocities of the frame: at rest, sliding at 1, 2, 3 and 5 units, with and
\* without a normal component.
ContactVelocityInputs ==
    {<<0, 0, 0>>, <<1, 0, 0>>, <<0, -2, 0>>, <<0, 3, -1>>, <<3, 4, 1>>,
     <<-3, 4, -1>>, <<0, 0, -1>>}

NextContact ==
    \/ Initialize(TRUE, TRUE)
    \/ \E o \in ContactOptionInputs : SetOptions(o)
    \/ Start(XVal("init"), TRUE, TRUE, FALSE)
    \/ Step(-1)
    \/ StepLoop
    \/ StepPeriod
    \/ StepFree
    \/ \E depth \in ContactDepthInputs, v \in ContactVelocityInputs :
           ComputeContactDynamics(depth, v)

SpecContact == Init /\ [][NextContact]_vars

(***************************************************************************)
(* The specification of the rounding: simulations made of several steps    *)
(* whose end times are beyond FlExact, so that the sum t + stepSize is     *)
(* rounded and the Kahan compensation t_err is not zero, stopped and       *)
(* started again.                                                          *)
(***************************************************************************)
\* explicit Euler with 5e-3 s steps and no sampling.
KahanOptionInputs ==
    {WithOptions(50000, "explicit_euler", 0, 0, -1, FALSE)}

\* step sizes: 7e-3 s, and one tick more.
KahanStepInputs == {70000, 70001}

\* Engine::step, any number of times in a simulation.
StepUncapped(stepSize) ==
    /\ Call("step")
    /\ step(stepSize)
    /\ UNCHANGED <<bindingVars, resetVars,
                   optionVars, forceVars, stepperStateLast_,
                   log>>

NextKahan ==
    \/ Initialize(TRUE, TRUE)
    \/ \E o \in KahanOptionInputs : SetOptions(o)
    \/ Start(XVal("init"), TRUE, TRUE, FALSE)
    \/ Stop
    \/ \E h \in KahanStepInputs : StepUncapped(h)
    \/ StepLoop
    \/ StepFree

SpecKahan == Init /\ [][NextKahan]_vars

(***************************************************************************)
(* Properties.  A call is a step from the idle state that sets lastOp; the *)
(* value it returns is ret once pc is "idle" again.                        *)
(***************************************************************************)
Returned(op, code) == pc = "idle" /\ lastOp = op /\ ret = code

\* C1: while a simulation is running, setOptions, registerForceImpulse and
\* registerForceProfile return ERROR_GENERIC and change neither the options
\* nor the registered forces.
C1_RefusedWhileRunning ==
    [][(/\ pc = "idle"
        /\ lockModel_
        /\ lastOp' \in {"setOptions", "registerForceImpulse",
                        "registerForceProfile"})
       => (/\ pc' = "idle"
           /\ ret' = ERROR_GENERIC
           /\ UNCHANGED <<optionVars, forceVars>>)]_vars

C1_Witness ==
    /\ Returned("registerForceImpulse", ERROR_GENERIC)
    /\ lockModel_
    /\ lastLocked

\* The option sets of C2: dtMax outside [1e-6, 5e-3], the known solvers, two
\* non-zero periods neither of which is an integer multiple of the other,
\* and the remaining options at their defaults.
C2_DtMaxOutside(o) ==
    o.dtMax < MIN_SIMULATION_TIMESTEP \/ o.dtMax > MAX_SIMULATION_TIMESTEP

C2_SolverKnown(o) == o.odeSolver \in {"runge_kutta_dopri5", "explicit_euler"}

C2_PeriodsIncompatible(o) ==
    /\ o.sensorsUpdatePeriod # 0
    /\ o.controllerUpdatePeriod # 0
    /\ o.sensorsUpdatePeriod % o.controllerUpdatePeriod # 0
    /\ o.controllerUpdatePeriod % o.sensorsUpdatePeriod # 0

C2_OthersDefault(o) ==
    [o EXCEPT !.dtMax = getDefaultOptions.dtMax,
              !.odeSolver = getDefaultOptions.odeSolver,
              !.sensorsUpdatePeriod = getDefaultOptions.sensorsUpdatePeriod,
              !.controllerUpdatePeriod =
                  getDefaultOptions.controllerUpdatePeriod]
        = getDefaultOptions

C2_Rejected(o) ==
    \/ C2_DtMaxOutside(o)
    \/ ~C2_SolverKnown(o)
    \/ C2_PeriodsIncompatible(o)

C2_Accepted(o) ==
    /\ ~C2_DtMaxOutside(o)
    /\ C2_SolverKnown(o)
    /\ ~C2_PeriodsIncompatible(o)
    /\ C2_OthersDefault(o)

C2_PeriodsLongEnough(o) ==
    /\ o.sensorsUpdatePeriod = 0
       \/ o.sensorsUpdatePeriod >= MIN_SIMULATION_TIMESTEP
    /\ o.controllerUpdatePeriod = 0
       \/ o.controllerUpdatePeriod >= MIN_SIMULATION_TIMESTEP

\* C2 as stated: with no simulation running, setOptions returns
\* ERROR_BAD_INPUT when dtMax is outside [1e-6, 5e-3], the solver is unknown
\* or the periods are incompatible, and SUCCESS when dtMax is inside, the
\* solver is known and the periods are compatible (other options default).
C2_AsStated ==
    ~lockModel_
    => \A o \in OptionInputs :
           /\ C2_Rejected(o) => setOptions(o).code = ERROR_BAD_INPUT
           /\ C2_Accepted(o) => setOptions(o).code = SUCCESS

\* C2, amended: as above, but SUCCESS is returned only when, in addition,
\* every non-zero period is at least 1e-6 s; a shorter non-zero period is
\* answered by ERROR_BAD_INPUT.
C2_Amended ==
    ~lockModel_
    => \A o \in OptionInputs :
           /\ (C2_Rejected(o) \/ ~C2_PeriodsLongEnough(o))
              => setOptions(o).code = ERROR_BAD_INPUT
           /\ (C2_Accepted(o) /\ C2_PeriodsLongEnough(o))
              => (setOptions(o).code = SUCCESS /\ setOptions(o).holder = o)

C2_Witness ==
    /\ Returned("setOptions", SUCCESS)
    /\ ~lastLocked
    /\ engineOptionsHolder_.dtMax = MAX_SIMULATION_TIMESTEP
    /\ engineOptionsHolder_.odeSolver = "explicit_euler"

\* C3: a setOptions call that returns an error leaves the options holder,
\* the typed options and stepperUpdatePeriod_ as they were.
C3_RejectedLeavesOptions ==
    [][(pc = "idle" /\ lastOp' = "setOptions" /\ ret' # SUCCESS)
       => UNCHANGED optionVars]_vars

\* C4: in the options the engine holds, when the sensor and the controller
\* update periods are both non-zero one is an integer multiple of the other.
C4_PeriodsCompatible ==
    /\ ~C2_PeriodsIncompatible(engineOptionsHolder_)
    /\ ~C2_PeriodsIncompatible(engineOptions_)

C4_Witness ==
    /\ Returned("setOptions", ERROR_BAD_INPUT)
    /\ engineOptions_.sensorsUpdatePeriod = 20000
    /\ engineOptions_.controllerUpdatePeriod = 10000

\* C5: on an engine whose initialize never succeeded, start, step and
\* simulate return ERROR_GENERIC and leave the engine's state untouched.
C5_UninitializedRefused ==
    [][(/\ pc = "idle"
        /\ ~isInitialized_
        /\ lastOp' \in {"start", "step", "simulate"})
       => (/\ pc' = "idle"
           /\ ret' = ERROR_GENERIC
           /\ UNCHANGED <<optionVars, forceVars, lockVars, stateVars>>)]_vars

\* C6: on an initialized engine with no simulation running, step returns
\* ERROR_GENERIC and changes neither t, iter, x nor the log.
C6_StepWithoutSimulation ==
    [][(pc = "idle" /\ isInitialized_ /\ ~lockModel_ /\ lastOp' = "step")
       => (/\ pc' = "idle"
           /\ ret' = ERROR_GENERIC
           /\ UNCHANGED <<stateVars, lockVars>>)]_vars

C6_Witness ==
    /\ Returned("step", ERROR_GENERIC)
    /\ isInitialized_
    /\ ~lockModel_
    /\ Len(log) > 1

\* C7 as stated: start called while a simulation is running returns
\* ERROR_GENERIC and leaves the running simulation (lock, t, iter, x, log)
\* untouched.
C7_AsStated ==
    [][(pc = "idle" /\ lockModel_ /\ lastOp' = "start")
       => (/\ ret' = ERROR_GENERIC
           /\ UNCHANGED <<lockVars, stateVars>>)]_vars

\* C7, amended: start called while a simulation is running restarts it when
\* x0 has the size of the model's state: it returns SUCCESS, the lock is
\* held, t = 0, iter = 0, x = x0 and the log holds the one record of t = 0;
\* with an x0 of another size it returns ERROR_BAD_INPUT and leaves the
\* running simulation untouched.
C7_StartRestarts ==
    [][(pc = "idle" /\ lockModel_ /\ lastOp' = "start")
       => \A x \in XInitInputs, ok \in BOOLEAN, r \in BOOLEAN :
              Start(x, ok, FALSE, r)
              => IF ok
                 THEN /\ pc' = "idle"
                      /\ ret' = SUCCESS
                      /\ lockModel_'
                      /\ stepperState_'.t = 0
                      /\ stepperState_'.iter = 0
                      /\ stepperState_'.x = x
                      /\ log' = <<[t |-> 0, iter |-> 0]>>
                 ELSE /\ pc' = "idle"
                      /\ ret' = ERROR_BAD_INPUT
                      /\ UNCHANGED <<lockVars, stateVars, forceVars>>]_vars

C7_Witness ==
    /\ Returned("start", SUCCESS)
    /\ lastLocked
    /\ lockModel_
    /\ stepperState_.t = 0
    /\ Len(log) = 1

\* C8: during a running simulation, a step that finds a NaN in x returns
\* ERROR_GENERIC and changes neither t, iter, t_err, x nor the log, whether
\* the caller called it or simulate did.
C8_NaNStopsStep ==
    [][/\ (/\ pc = "idle"
           /\ isInitialized_
           /\ lockModel_
           /\ stepperState_.x.nan
           /\ lastOp' = "step")
          => (/\ pc' = "idle"
              /\ ret' = ERROR_GENERIC
              /\ UNCHANGED <<stateVars, lockVars>>)
       /\ (pc = "simulate" /\ stepperState_.x.nan)
          => (/\ pc' = "idle"
              /\ ret' \in {ERROR_GENERIC, SUCCESS}
              /\ UNCHANGED stateVars)]_vars

C8_Witness ==
    /\ Returned("step", ERROR_GENERIC)
    /\ lockModel_
    /\ stepperState_.x.nan
    /\ stepperState_.iter > 0

\* C9: when the integrator rejects more consecutive attempts than the
\* failure checker allows, step ends by returning ERROR_GENERIC, in the
\* update-period branch and in the free branch.
C9_OverflowIsReturned ==
    [][(/\ pc \in {"step_period", "step_free"}
        /\ loc.fails >= MaxFailedSteps
        /\ stepperState_'.iter = stepperState_.iter
        /\ stepperState_'.dt < stepperState_.dt)
       => (pc' = "idle" /\ ret' = ERROR_GENERIC)]_vars

\* C10: whenever simulate hands control back to its caller, the lock is
\* released.
C10_LockReleasedAfterSimulate ==
    (pc = "idle" /\ lastOp = "simulate") => ~lockModel_

(***************************************************************************)
(* C11.  simulate returns SUCCESS when its loop ends because the end time  *)
(* is reached, because the callback returned false, or because iterMax     *)
(* integration steps were made.                                            *)
(***************************************************************************)
C11_EndTimeReached ==
    sim.tEnd - stepperState_.t < MIN_SIMULATION_TIMESTEP

C11_CallbackFalse == cb'.n = cb.n + 1 /\ ~cb'.res

C11_IterMaxReached == cb'.n = cb.n + 1 /\ cb'.res /\ cb'.steps = cb.steps

C11_LoopExitsSucceed ==
    [][(/\ pc = "simulate"
        /\ C11_EndTimeReached \/ C11_CallbackFalse \/ C11_IterMaxReached)
       => (pc' = "idle" /\ ret' = SUCCESS)]_vars

\* simulate has returned SUCCESS because iterMax steps were made.
C11_Witness ==
    /\ Returned("simulate", SUCCESS)
    /\ cb.n = cb.steps + 1
    /\ cb.res
    /\ engineOptions_.iterMax > 0
    /\ stepperStateLast_.iter >= engineOptions_.iterMax

(***************************************************************************)
(* C12.  With iterMax = N > 0, a callback that always returns true and an  *)
(* end time that is not reached, simulate returns SUCCESS with iter        *)
(* exactly N, never more, for every choice of update periods, dtMax and    *)
(* solver.                                                                 *)
(***************************************************************************)
C12_IterExactlyMax ==
    (/\ Returned("simulate", SUCCESS)
     /\ engineOptions_.iterMax > 0
     /\ cb.res
     /\ cb.n = cb.steps + 1)
    => stepperState_.iter = engineOptions_.iterMax

(***************************************************************************)
(* C13.  simulate evaluates the callback only at step boundaries: exactly  *)
(* once before each call of step, with the time and the state reached by   *)
(* the previous step, and never while a step is running.  Once the         *)
(* callback has returned false, no further step is made before the         *)
(* simulation is stopped.                                                  *)
(***************************************************************************)
C13_Evaluated == cb'.n = cb.n + 1

C13_StepCalled == cb'.steps = cb.steps + 1

C13_InsideStep == pc \in {"step_loop", "step_period", "step_free"}

C13_CallbackAtStepBoundaries ==
    [][/\ cb' # cb => (pc = "idle" /\ cb' = NoCallback) \/ C13_Evaluated
       /\ C13_InsideStep => cb' = cb
       /\ C13_Evaluated =>
            /\ pc = "simulate"
            /\ cb.n = cb.steps
            /\ cb'.t = stepperState_.t
            /\ cb'.x = stepperState_.x
            /\ stepperState_.x = stepperStateLast_.x
       /\ (pc = "simulate" /\ C13_StepCalled) => (C13_Evaluated /\ cb'.res)
       /\ (C13_Evaluated /\ ~cb'.res) =>
            /\ cb'.steps = cb.steps
            /\ pc' = "idle"
            /\ ~lockModel_'
            /\ UNCHANGED stateVars]_vars

\* simulate has made two steps, evaluated the callback before each of them
\* and a third time, and has returned on the callback's false.
C13_Witness ==
    /\ Returned("simulate", SUCCESS)
    /\ cb.steps = 2
    /\ cb.n = 3
    /\ ~cb.res
    /\ cb.t = stepperState_.t
    /\ cb.t > 0

(***************************************************************************)
(* C14.  After every step(stepSize) that returns SUCCESS, t is exactly the *)
(* end time computed when the step was entered, that is t_before +         *)
(* stepSize - t_err_before, and is strictly greater than t_before.         *)
(***************************************************************************)
C14_StepEntered == pc \in {"idle", "simulate"} /\ pc' = "step_loop"

\* step hands SUCCESS back, to its caller or to the loop of simulate.
C14_StepSucceeded ==
    /\ C13_InsideStep
    /\ \/ pc' = "idle" /\ ret' = SUCCESS
       \/ pc' = "simulate"

C14_StepReachesEndTime ==
    [][/\ C14_StepEntered =>
            /\ loc'.tEnd = stepperState_.t + loc'.stepSize_true
            /\ loc'.tEnd > stepperState_.t
       /\ \A h \in StepSizeInputs :
            (Step(h) /\ pc' = "step_loop" /\ h > 0) =>
                loc'.stepSize_true = h - stepperState_.t_err
       /\ (C13_InsideStep /\ pc' \in {"step_loop", "step_period", "step_free"})
            => /\ loc'.tEnd = loc.tEnd
               /\ loc'.stepSize_true = loc.stepSize_true
       /\ C14_StepSucceeded =>
            /\ stepperState_'.t = loc.tEnd
            /\ stepperState_'.t > loc.tEnd - loc.stepSize_true]_vars

\* step has returned SUCCESS for the second time in a simulation.
C14_Witness ==
    /\ Returned("step", SUCCESS)
    /\ stepperState_.iter >= 2
    /\ Len(log) >= 2
    /\ stepperState_.t > 10000

(***************************************************************************)
(* C15.  step called with a negative or zero stepSize integrates over the  *)
(* default duration: controllerUpdatePeriod if it is not zero, otherwise   *)
(* sensorsUpdatePeriod if it is not zero, otherwise dtMax.                 *)
(***************************************************************************)
C15_DefaultDuration ==
    IF engineOptions_.controllerUpdatePeriod # 0
    THEN engineOptions_.controllerUpdatePeriod
    ELSE IF engineOptions_.sensorsUpdatePeriod # 0
         THEN engineOptions_.sensorsUpdatePeriod
         ELSE engineOptions_.dtMax

C15_DefaultStepIsUsed ==
    [][\A h \in StepSizeInputs :
          (h <= 0 /\ Step(h) /\ pc' = "step_loop") =>
              /\ loc'.tEnd - stepperState_.t =
                     C15_DefaultDuration - stepperState_.t_err
              /\ loc'.stepSize_true =
                     C15_DefaultDuration - stepperState_.t_err]_vars

\* step() has covered the sensors' period, the controller having none.
C15_Witness ==
    /\ Returned("step", SUCCESS)
    /\ engineOptions_.controllerUpdatePeriod = 0
    /\ engineOptions_.sensorsUpdatePeriod = 20000
    /\ engineOptions_.dtMax = 10000
    /\ stepperState_.t = 20000
    /\ Len(log) = 2

(***************************************************************************)
(* C16.  Every accepted integrator step advances the committed time t by   *)
(* at least MIN_STEPPER_TIMESTEP, in the update-period branch and in the   *)
(* free-running branch, for every set of registered impulses.              *)
(***************************************************************************)
C16_StepAccepted == stepperState_'.iter = stepperState_.iter + 1

C16_AcceptedStepAdvances ==
    [][C16_StepAccepted =>
          /\ ~LtMinStepperTimestep(loc'.t - loc.t)
          /\ ~LtMinStepperTimestep(stepperState_'.t - stepperState_.t)]_vars

(***************************************************************************)
(* C17.  Every accepted integrator step advances t by at most dtMax: no    *)
(* try_step is attempted with a dt larger than dtMax, in the update-period *)
(* branch and in the free-running branch.                                  *)
(***************************************************************************)
\* try_step is about to be called in the update-period branch.
C17_PeriodAttempt == pc = "step_period" /\ GtEPS(loc.tNext - loc.t)

C17_NoStepLongerThanDtMax ==
    [][/\ C17_PeriodAttempt' => PeriodDt' <= engineOptions_'.dtMax
       /\ pc' = "step_free" => stepperState_'.dt <= engineOptions_'.dtMax
       /\ C16_StepAccepted => loc'.t - loc.t <= engineOptions_.dtMax]_vars

\* try_step is about to be called with dtMax, the stepper's dt and the
\* distance to the next breakpoint being both longer.
C17_Witness ==
    /\ C17_PeriodAttempt
    /\ stepperState_.dt > engineOptions_.dtMax
    /\ loc.tNext - loc.t > engineOptions_.dtMax
    /\ PeriodDt = engineOptions_.dtMax

(***************************************************************************)
(* C18.  As stated: in every state reachable after a successful start      *)
(* (right after start, between two steps, after each accepted or rejected  *)
(* sub-step) the dt of the stepper state is at most the dtMax of the       *)
(* options in force.                                                       *)
(***************************************************************************)
C18_AsStated == lockModel_ => stepperState_.dt <= engineOptions_.dtMax

\* A simulation has just been started, by start or by simulate.
C18_Started ==
    /\ pc = "idle"
    /\ \/ lastOp' = "start" /\ pc' = "idle" /\ ret' = SUCCESS
       \/ lastOp' = "simulate" /\ pc' = "simulate"

C18_StepRejected == C13_InsideStep /\ loc'.fails = loc.fails + 1

(***************************************************************************)
(* C18, amended.  Right after a successful start dt is the stepper update  *)
(* period when it exceeds 1e-6 s and dtMax otherwise; after a rejected     *)
(* sub-step dt is shorter than the dt attempted and so at most dtMax;      *)
(* after an accepted sub-step dt is the stepper's proposal, at least the   *)
(* length of the accepted step, and it is at most dtMax whenever try_step  *)
(* is about to be called in the free-running branch.                       *)
(***************************************************************************)
C18_DtOfStepperState ==
    [][/\ C18_Started =>
            stepperState_'.dt =
                (IF stepperUpdatePeriod_ > MIN_SIMULATION_TIMESTEP
                 THEN stepperUpdatePeriod_
                 ELSE engineOptions_.dtMax)
       /\ C18_StepRejected =>
            /\ stepperState_'.dt < stepperState_.dt
            /\ stepperState_'.dt <= engineOptions_.dtMax
       /\ C16_StepAccepted => stepperState_'.dt >= loc'.t - loc.t
       /\ pc' = "step_free" => stepperState_'.dt <= engineOptions_.dtMax]_vars

\* A simulation has been started with an update period longer than dtMax:
\* dt is the update period.
C18_Witness ==
    /\ Returned("start", SUCCESS)
    /\ lockModel_
    /\ stepperState_.iter = 0
    /\ stepperState_.dt = stepperUpdatePeriod_
    /\ stepperState_.dt > engineOptions_.dtMax

(***************************************************************************)
(* C19.  At every evaluation of the dynamics at a time t, the force of     *)
(* each registered impulse (t_i, dt_i, F_i) is added if and only if        *)
(* t_i <= t <= t_i + dt_i, for any number of registered impulses, adjacent *)
(* or overlapping ones included.                                           *)
(***************************************************************************)
C19_ImpulsesActive(t) ==
    {k \in DOMAIN forcesImpulse_ : k <= t /\ t <= k + forcesImpulse_[k].dt}

\* try_step has been called and has evaluated the dynamics.
C19_SystemEvaluated ==
    /\ C13_InsideStep
    /\ C16_StepAccepted \/ C18_StepRejected

C19_ActiveImpulsesApplied ==
    [][C19_SystemEvaluated =>
          loc'.fext.impulses = C19_ImpulsesActive(loc'.fext.t)]_vars

C21_ResetEffects ==
    [][\A rrn \in BOOLEAN, r \in BOOLEAN :
          (Reset(rrn, r) /\ ret' = VOID) =>
              /\ modelIsReset' /\ controllerIsReset'
              /\ ~lockModel_' /\ ~isTelemetryConfigured_'
              /\ IF r
                 THEN /\ forcesImpulse_' = EmptyMap
                      /\ forcesProfile_' = 0
                      /\ forceImpulseNextIt_' = MapBegin(forcesImpulse_')
                 ELSE UNCHANGED forceVars
              /\ IF rrn
                 THEN randGenerator' = "seeded"
                 ELSE UNCHANGED randGenerator]_vars

\* A reset has stopped a running simulation and has reset the model and
\* the controller, leaving in place the impulses that were registered and
\* the random generator, which the simulation had drawn from.
C21_Witness ==
    /\ Returned("reset", VOID)
    /\ lastLocked /\ ~lockModel_
    /\ modelIsReset /\ controllerIsReset
    /\ forcesImpulse_ # EmptyMap
    /\ randGenerator # "seeded"

(***************************************************************************)
(* C22, as stated.  A start that returns SUCCESS leaves the lock held,     *)
(* t = 0, iter = 0, the cursor on the earliest registered impulse and one  *)
(* record, of t = 0, in the log; the lock is released by stop and by reset *)
(* only; a start that returns an error leaves no lock held.                *)
(***************************************************************************)
C22_AsStated ==
    [][/\ (pc = "idle" /\ lastOp' = "start" /\ pc' = "idle") =>
              IF ret' = SUCCESS
              THEN /\ lockModel_'
                   /\ stepperState_'.t = 0
                   /\ stepperState_'.iter = 0
                   /\ forceImpulseNextIt_'.end = (DOMAIN forcesImpulse_' = {})
                   /\ \A k \in DOMAIN forcesImpulse_' :
                          forceImpulseNextIt_'.key <= k
                   /\ log' = <<[t |-> 0, iter |-> 0]>>
              ELSE ~lockModel_'
       /\ (lockModel_ /\ ~lockModel_') => lastOp' \in {"stop", "reset"}]_vars

(***************************************************************************)
(* C22, amended.  A start that returns SUCCESS leaves the lock held,       *)
(* t = 0, iter = 0, the cursor on the earliest registered impulse and one  *)
(* record, of t = 0, in the log; the lock is released by stop and by reset *)
(* only; a start that returns an error leaves the lock as it found it:     *)
(* free when no simulation was running, held by the running simulation     *)
(* otherwise.                                                              *)
(***************************************************************************)
C22_StartHoldsLock ==
    [][/\ (pc = "idle" /\ lastOp' = "start" /\ pc' = "idle") =>
              IF ret' = SUCCESS
              THEN /\ lockModel_'
                   /\ stepperState_'.t = 0
                   /\ stepperState_'.iter = 0
                   /\ forceImpulseNextIt_'.end = (DOMAIN forcesImpulse_' = {})
                   /\ \A k \in DOMAIN forcesImpulse_' :
                          forceImpulseNextIt_'.key <= k
                   /\ log' = <<[t |-> 0, iter |-> 0]>>
              ELSE UNCHANGED lockVars
       /\ (lockModel_ /\ ~lockModel_') => lastOp' \in {"stop", "reset"}]_vars

\* A start has restarted a running simulation in which two impulses are
\* registered: the cursor is on the earlier one.
C22_Witness ==
    /\ Returned("start", SUCCESS)
    /\ lastLocked /\ lockModel_
    /\ Cardinality(DOMAIN forcesImpulse_) = 2
    /\ forceImpulseNextIt_ = ItAt(SetMin(DOMAIN forcesImpulse_))
    /\ stepperStateLast_.t = 0
    /\ Len(log) = 1

(***************************************************************************)
(* C23: with logInternalStepperSteps false, a step appends one record to   *)
(* the log, stamped with the end time of the step, when it returns SUCCESS *)
(* and nothing before; with logInternalStepperSteps true, a step appends   *)
(* one record at each accepted integrator step and nothing at its exit.    *)
(***************************************************************************)
C23_InStep ==
    \/ pc \in {"step_loop", "step_period", "step_free"}
    \/ pc = "idle" /\ lastOp' = "step"

C23_StepSucceeds ==
    /\ pc \in {"step_loop", "step_period", "step_free"}
    /\ pc' = "simulate" \/ (pc' = "idle" /\ ret' = SUCCESS)

C24_SimulateEntered == pc = "simulate" /\ lastOp = "simulate" /\ cb = NoCallback

C24_SameStartOnSameEngine ==
    C24_SimulateEntered =>
        /\ stepperState_.t = 0
        /\ stepperState_.iter = 0
        /\ stepperState_.t_err = 0
        /\ forceImpulseNextIt_ = MapBegin(forcesImpulse_)
        /\ Len(log) = 1
        /\ randGenerator = RandDraw("seeded")

(***************************************************************************)
(* C25: with a callback that returns true, no cap on the iterations and an *)
(* integrator that does not fail, a simulate that has entered its loop     *)
(* eventually returns SUCCESS, it returns with 0 <= tEnd - t <             *)
(* MIN_SIMULATION_TIMESTEP, and no step it calls returns ERROR_BAD_INPUT.  *)
(***************************************************************************)
C25_SimulateReturns ==
    /\ [][(sim.active /\ pc' = "idle") =>
              /\ ret' = SUCCESS
              /\ sim.tEnd - stepperState_'.t >= 0
              /\ sim.tEnd - stepperState_'.t < MIN_SIMULATION_TIMESTEP]_vars
    /\ (sim.active /\ engineOptions_.iterMax <= 0)
           ~> Returned("simulate", SUCCESS)

(***************************************************************************)
(* C26, as stated.  simulate, given an x0 of the right size, returns       *)
(* ERROR_BAD_INPUT exactly when the duration is shorter than 1 ms.         *)
(***************************************************************************)
C26_AsStated ==
    [][\A d \in DurationInputs :
          Simulate(d, XVal("init"), TRUE) =>
              ((pc' = "idle" /\ ret' = ERROR_BAD_INPUT) <=> d < 10000)]_vars

(***************************************************************************)
(* C26, amended.  simulate, given an x0 of the right size, returns         *)
(* ERROR_BAD_INPUT exactly when the duration is shorter than 5 ms; a       *)
(* duration of 5 ms or more is not rejected as too short.                  *)
(***************************************************************************)
C26_RejectedBelowFiveMs ==
    [][\A d \in DurationInputs :
          Simulate(d, XVal("init"), TRUE) =>
              ((pc' = "idle" /\ ret' = ERROR_BAD_INPUT)
                   <=> d < MIN_SIMULATION_DURATION)]_vars

\* simulate has rejected a duration, of 3 ms, on an initialized engine.
C26_Witness ==
    /\ Returned("simulate", ERROR_BAD_INPUT)
    /\ isInitialized_
    /\ \E d \in DurationInputs : d >= 10000 /\ d < MIN_SIMULATION_DURATION

(***************************************************************************)
(* C27: a simulate or a start that returns ERROR_BAD_INPUT has no side     *)
(* effect: the lock and the configuration of the telemetry, the stepper    *)
(* state, the log, the registered forces, the model, the controller and    *)
(* the random generator are as they were before the call; a simulation     *)
(* that was running is still running.                                      *)
(***************************************************************************)
C27_RejectedCallHasNoEffect ==
    [][(/\ pc = "idle"
        /\ lastOp' \in {"simulate", "start"}
        /\ pc' = "idle"
        /\ ret' = ERROR_BAD_INPUT)
       => UNCHANGED <<lockVars, stateVars, forceVars, resetVars>>]_vars

(***************************************************************************)
(* C28: getLogFieldValue(name), called on the header and the matrix of the *)
(* log, returns the column of name when name is one of the names of the    *)
(* columns of the header and an empty vector when it is not, and reads no  *)
(* column outside the matrix.                                              *)
(***************************************************************************)
C28_IsColumnName(f) ==
    \E i \in 1..Len(ColumnNames(logHeader)) : ColumnNames(logHeader)[i] = f

C28_ColumnOf(f) ==
    (CHOOSE i \in 1..Len(ColumnNames(logHeader)) :
         ColumnNames(logHeader)[i] = f) - 1

C28_ColumnOrEmpty ==
    [][\A f \in FieldNameInputs :
          GetLogFieldValue(f) =>
              /\ pc' = "idle"
              /\ IF C28_IsColumnName(f)
                 THEN /\ out'.fieldData = "column"
                      /\ out'.col = <<C28_ColumnOf(f)>>
                 ELSE /\ out'.fieldData = "empty"
                      /\ out'.col = <<>>
              /\ \A i \in 1..Len(out'.col) :
                     /\ out'.col[i] >= 0
                     /\ out'.col[i] < logDataCols(logHeader)]_vars

(***************************************************************************)
(* C29: while a simulation is running the registration of variables is not *)
(* available and the names registered do not change (a start called during *)
(* a simulation stops it and starts another one).  Once registration is    *)
(* not available, internalRegisterVariable returns ERROR_GENERIC for a     *)
(* name that is not registered and changes neither the offset of the next  *)
(* name, the offset of the next value nor the entries; for a name that is  *)
(* registered it returns SUCCESS with the position the name was given at   *)
(* its registration, and the two offsets are left as they were.            *)
(***************************************************************************)
C29_IsRegistered(n) ==
    \E i \in 1..Len(telemetryData_.names) : telemetryData_.names[i] = n

C29_PositionOf(n) ==
    NameSectionSize
        + SizeOfT * ((CHOOSE i \in 1..Len(telemetryData_.names) :
                          telemetryData_.names[i] = n) - 1)

C29_NamesFrozen ==
    /\ [](lockModel_ => ~telemetryData_.isRegisteringAvailable)
    /\ [][(lockModel_ /\ lockModel_' /\ ~(pc = "idle" /\ lastOp' = "start"))
              => telemetryData_'.names = telemetryData_.names]_vars
    /\ [][\A n \in VariableNameInputs :
              (/\ InternalRegisterVariable(n)
               /\ ~telemetryData_.isRegisteringAvailable) =>
                  IF C29_IsRegistered(n)
                  THEN /\ ret' = SUCCESS
                       /\ out'.position = C29_PositionOf(n)
                       /\ telemetryData_'.names = telemetryData_.names
                       /\ telemetryData_'.nextFreeNameOffset =
                              telemetryData_.nextFreeNameOffset
                       /\ telemetryData_'.nextFreeDataOffset =
                              telemetryData_.nextFreeDataOffset
                  ELSE /\ ret' = ERROR_GENERIC
                       /\ telemetryData_' = telemetryData_]_vars

\* During a simulation started with two names registered, the registration
\* of a third name has been refused.
C29_Witness ==
    /\ Returned("internalRegisterVariable", ERROR_GENERIC)
    /\ lockModel_
    /\ ~telemetryData_.isRegisteringAvailable
    /\ Len(telemetryData_.names) = 2
    /\ telemetryData_.nextFreeNameOffset + 2 < NameSectionSize

(***************************************************************************)
(* C30: no accepted integrator step straddles a breakpoint: between the    *)
(* time t0 it starts from and the time t1 it reaches there is no multiple  *)
(* of the stepper update period, no start time of an impulse, no end time  *)
(* of an impulse and no end time of the step.                              *)
(***************************************************************************)
C30_StepAccepted ==
    /\ pc \in {"step_period", "step_free"}
    /\ stepperState_'.iter = stepperState_.iter + 1

C30_Breakpoints ==
    {loc.tEnd}
        \cup DOMAIN forcesImpulse_
        \cup {k + forcesImpulse_[k].dt : k \in DOMAIN forcesImpulse_}
        \cup (IF stepperUpdatePeriod_ > 0
              THEN {b \in 1..loc.tEnd : b % stepperUpdatePeriod_ = 0}
              ELSE {})

C30_NoStepStraddlesBreakpoint ==
    [][C30_StepAccepted =>
           \A b \in C30_Breakpoints :
               ~(stepperState_.t < b /\ b < stepperState_'.t)]_vars

(***************************************************************************)
(* C31: inside step, a rejected try_step leaves the committed time t, the  *)
(* iteration count, the last-accepted snapshot and the log unchanged.  An  *)
(* accepted try_step commits t, increments iter, writes the telemetry when *)
(* logInternalStepperSteps is set, and then copies the state into the      *)
(* last-accepted snapshot: the record written carries the committed t and  *)
(* the incremented iter, and the snapshot is the state after the step, so  *)
(* it has the t and the iter of the current state.                         *)
(***************************************************************************)
\* try_step has been called and has returned fail: the failure checker has
\* counted the failure, or has thrown.
C31_Rejected ==
    /\ pc \in {"step_period", "step_free"}
    /\ loc'.fails = loc.fails + 1 \/ ret' = EXCEPTION

\* try_step has been called and has returned success.
C31_Accepted ==
    /\ pc \in {"step_period", "step_free"}
    /\ stepperState_'.iter = stepperState_.iter + 1

C31_TryStepEffects ==
    [][/\ C31_Rejected =>
            /\ stepperState_'.t = stepperState_.t
            /\ stepperState_'.iter = stepperState_.iter
            /\ stepperStateLast_' = stepperStateLast_
            /\ log' = log
       /\ C31_Accepted =>
            /\ stepperState_'.t = loc'.t
            /\ engineOptions_.logInternalStepperSteps =>
                   log' = Append(log, [t |-> stepperState_'.t,
                                       iter |-> stepperState_'.iter])
            /\ ~engineOptions_.logInternalStepperSteps => log' = log
            /\ stepperStateLast_' = stepperState_'
            /\ stepperStateLast_'.t = stepperState_'.t
            /\ stepperStateLast_'.iter = stepperState_'.iter
       /\ pc \in {"step_period", "step_free"} /\ pc' \in {"step_period", "step_free"} =>
            C31_Rejected \/ C31_Accepted]_vars

\* A try_step has been rejected after an accepted one, inside one step: the
\* snapshot still has the t and the iter of the accepted step, and the dt
\* the stepper proposed then, while the rejection has shortened the dt of
\* the current state.
C31_Witness ==
    /\ pc \in {"step_period", "step_free"}
    /\ loc.fails > 0
    /\ stepperState_.iter >= 1
    /\ stepperState_.t > 0
    /\ stepperStateLast_.t = stepperState_.t
    /\ stepperStateLast_.iter = stepperState_.iter
    /\ stepperStateLast_.dt > stepperState_.dt

(***************************************************************************)
(* C32: every evaluation of the dynamics, made by try_step or by step      *)
(* itself after a new command, makes its calls in the fixed order forward  *)
(* kinematics, external forces, sensor update, command, motor torque,      *)
(* internal dynamics, torque summation, ABA, each once.  The sensor update *)
(* is there only in continuous sensor mode (period at most                 *)
(* MIN_SIMULATION_TIMESTEP), is there when the sensor period is zero, and  *)
(* reads the acceleration and the motor torque of the last-accepted        *)
(* snapshot; the command is there only in continuous controller mode, and  *)
(* is there when the controller period is zero.                            *)
(***************************************************************************)
C32_Order ==
    <<"computeForwardKinematics", "computeExternalForces", "setSensorsData",
      "computeCommand", "computeMotorsTorques", "computeInternalDynamics",
      "u", "aba">>

C32_InOrder(e) ==
    LET names == [i \in DOMAIN e.stages |-> e.stages[i].name]
        has(n) == \E i \in DOMAIN names : names[i] = n
        made(n) == n \notin {"setSensorsData", "computeCommand"} \/ has(n)
    IN  /\ names = SelectSeq(C32_Order, made)
        /\ has("setSensorsData") =>
               engineOptions_.sensorsUpdatePeriod <= MIN_SIMULATION_TIMESTEP
        /\ LtEPS(engineOptions_.sensorsUpdatePeriod) => has("setSensorsData")
        /\ has("computeCommand") =>
               engineOptions_.controllerUpdatePeriod
                   <= MIN_SIMULATION_TIMESTEP
        /\ LtEPS(engineOptions_.controllerUpdatePeriod) =>
               has("computeCommand")
        /\ \A i \in DOMAIN names :
               names[i] = "setSensorsData" =>
                   e.stages[i].a = "stepperStateLast_"

C32_StagesInOrder ==
    \A e \in {loc.fext, loc.sampled.dxdt} :
        e.stages # <<>> => C32_InOrder(e)

\* try_step has evaluated the dynamics with the sensors in continuous mode
\* and the controller sampled: seven calls, the sensor update third and no
\* command.
C32_Witness ==
    /\ pc \in {"step_period", "step_loop"}
    /\ stepperState_.iter >= 1
    /\ LtEPS(engineOptions_.sensorsUpdatePeriod)
    /\ engineOptions_.controllerUpdatePeriod > MIN_SIMULATION_TIMESTEP
    /\ Len(loc.fext.stages) = 7
    /\ loc.fext.stages[3].name = "setSensorsData"
    /\ loc.fext.stages[4].name = "computeMotorsTorques"
    /\ loc.sampled.dxdt.stages = loc.fext.stages

(***************************************************************************)
(* C33: with both periods non-zero and the sensor period an integer        *)
(* multiple of the controller period, every pass of step that refreshes    *)
(* the sensors also recomputes the command, and it is made at a time       *)
(* within MIN_SIMULATION_TIMESTEP of a multiple of the sensor period,      *)
(* whatever the step sizes and the breakpoints of the impulses.            *)
(***************************************************************************)
C33_SensorMultipleOfController ==
    /\ GtEPS(engineOptions_.sensorsUpdatePeriod)
    /\ GtEPS(engineOptions_.controllerUpdatePeriod)
    /\ \E k \in 1..4 :
           engineOptions_.sensorsUpdatePeriod
               = k * engineOptions_.controllerUpdatePeriod

C33_NearMultiple(t, period) ==
    \E k \in 0..((t \div period) + 1) :
        /\ t - k * period < MIN_SIMULATION_TIMESTEP
        /\ k * period - t < MIN_SIMULATION_TIMESTEP

C33_SensorsWithCommand ==
    C33_SensorMultipleOfController /\ loc.sampled.sensors =>
        /\ loc.sampled.command
        /\ C33_NearMultiple(loc.sampled.t,
                            engineOptions_.sensorsUpdatePeriod)

\* A pass made at the start of an impulse, 5e-7 s before the second
\* boundary of the sensor period, has refreshed the sensors and the command
\* in anticipation.
C33_Witness ==
    /\ C33_SensorMultipleOfController
    /\ pc = "step_period"
    /\ loc.sampled.sensors
    /\ loc.sampled.command
    /\ loc.sampled.t = 19995
    /\ engineOptions_.sensorsUpdatePeriod = 20000
    /\ engineOptions_.controllerUpdatePeriod = 10000

(***************************************************************************)
(* C34: for every sensor (resp. controller) period accepted by setOptions, *)
(* the sensors (resp. the command) are refreshed in exactly one of two     *)
(* ways: by each evaluation of the dynamics when the period is at most     *)
(* MIN_SIMULATION_TIMESTEP, and otherwise by the pass of step made at a    *)
(* boundary of the period; no accepted period leaves them never refreshed. *)
(* Stated on the integrator steps tried from a pass made at a boundary of  *)
(* the period.                                                             *)
(***************************************************************************)
C34_ByDynamics(n) ==
    \E i \in DOMAIN loc.fext.stages : loc.fext.stages[i].name = n

C34_OneWay(period, byDynamics, byStep) ==
    IF period <= MIN_SIMULATION_TIMESTEP
    THEN byDynamics /\ ~byStep
    ELSE ~byDynamics /\ (Fmod(loc.sampled.t, period) = 0 => byStep)

C34_RefreshedOneWay ==
    pc \in {"step_period", "step_free"} /\ loc.fext.stages # <<>> =>
        /\ C34_OneWay(engineOptions_.sensorsUpdatePeriod,
                      C34_ByDynamics("setSensorsData"), loc.sampled.sensors)
        /\ C34_OneWay(engineOptions_.controllerUpdatePeriod,
                      C34_ByDynamics("computeCommand"), loc.sampled.command)

(***************************************************************************)
(* C35: explicit_euler::try_step always returns success, evaluates the     *)
(* derivative at the time t and the state x it is called with, and         *)
(* advances t by the dt it is called with.                                 *)
(***************************************************************************)
C35_EulerTried ==
    /\ pc \in {"step_period", "step_free"}
    /\ engineOptions_.odeSolver = "explicit_euler"
    /\ C16_StepAccepted \/ C18_StepRejected \/ ret' = EXCEPTION

C35_DerivativeAtPreStepTime ==
    [][C35_EulerTried =>
          /\ C16_StepAccepted
          /\ loc'.t = loc.t + stepperState_'.dt
          /\ loc'.fext.t = loc.t]_vars

(***************************************************************************)
(* C36: for a contact frame below the ground (depth < 0) and               *)
(* transitionEps = 0, the tangential part of the contact force is          *)
(* -mu fN vT / |vT|, of magnitude mu fN and opposite to the tangential     *)
(* velocity, with mu the three-branch friction coefficient and fN the      *)
(* normal force; for depth >= 0 the force is zero.  Stated without the     *)
(* division: |vT| times the tangential part is -mu fN vT.                  *)
(***************************************************************************)
C36_TangentialForce ==
    LET c == out.contact
        vT == <<c.v[1], c.v[2], 0>>
        fN == c.f[3]
        mu == FrictionCoeff(Norm(vT))
    IN  c # NoContact /\ LtEPS(engineOptions_.transitionEps) =>
            IF c.depth < 0
            THEN \A i \in 1..2 :
                     Norm(vT) * c.f[i] = -(((mu * fN) \div 10) * vT[i])
            ELSE c.f = <<0, 0, 0>>

(***************************************************************************)
(* C37: every call to step during a running simulation terminates, for     *)
(* every set of registered impulses, windows that overlap or are           *)
(* back-to-back included: a step that has entered its loop eventually      *)
(* leaves it, and each pass of the outer loop is made at a time later than *)
(* the pass before.                                                        *)
(***************************************************************************)
C37_StepTerminates ==
    /\ [][pc = "step_loop" /\ pc' \in {"step_period", "step_free"}
              /\ loc.sampled # NoSampling
          => loc'.sampled.t > loc.sampled.t]_vars
    /\ (pc \in {"step_loop", "step_period", "step_free"})
           ~> (pc \in {"simulate", "idle"})

(***************************************************************************)
(* C38: the cursor of the impulses is never read through when it is past   *)
(* the last registered impulse: every read of a start time or of a         *)
(* duration through the cursor, in step and in the evaluation of the       *)
(* dynamics, is made at a position that designates a registered impulse,   *)
(* right after the cursor has been advanced included; and during a         *)
(* simulation the cursor only moves forward.                               *)
(***************************************************************************)
C38_Designates(r) == ~r.end /\ r.key \in DOMAIN forcesImpulse_

C38_Forward(a, b) == a = b \/ (~a.end /\ (b.end \/ b.key > a.key))

C38_CursorReadsImpulses ==
    [][/\ \A r \in loc'.reads \cup loc'.fext.reads
                     \cup loc'.sampled.dxdt.reads :
              C38_Designates(r)'
       /\ pc # "idle" /\ lockModel_ /\ lockModel_' =>
              C38_Forward(forceImpulseNextIt_, forceImpulseNextIt_')]_vars

(***************************************************************************)
(* C39: start re-initialises every field of the stepper state: right after *)
(* a successful start iter = 0, t = 0, dt is its initial value and the     *)
(* Kahan compensation t_err = 0, whatever the simulations made before, so  *)
(* that the first step(h) after a start targets tEnd = h.                  *)
(***************************************************************************)
C39_StartSucceeds ==
    pc = "idle" /\ lastOp' = "start" /\ pc' = "idle" /\ ret' = SUCCESS

C39_StartReinitialises ==
    [][/\ C39_StartSucceeds =>
            /\ stepperState_'.iter = 0
            /\ stepperState_'.t = 0
            /\ stepperState_'.dt =
                   (IF stepperUpdatePeriod_ > MIN_SIMULATION_TIMESTEP
                    THEN stepperUpdatePeriod_
                    ELSE engineOptions_.dtMax)
            /\ stepperState_'.t_err = 0
       /\ \A h \in KahanStepInputs :
              /\ Returned("start", SUCCESS)
              /\ StepUncapped(h)
              /\ pc' = "step_loop"
              => loc'.tEnd = h]_vars

(***************************************************************************)
(* C40: an initialize that returns ERROR_INIT_FAILED, for a model or for a *)
(* controller that is not initialized, leaves the bound model, the bound   *)
(* controller, the buffers of the stepper state and isInitialized as they  *)
(* were before the call.                                                   *)
(***************************************************************************)
C40_InitializeFails ==
    /\ pc = "idle"
    /\ lastOp' = "initialize"
    /\ pc' = "idle"
    /\ ret' = ERROR_INIT_FAILED

C40_FailedInitializeKeepsBindings ==
    [][C40_InitializeFails =>
          /\ model_' = model_
          /\ controller_' = controller_
          /\ isInitialized_' = isInitialized_
          /\ stepperState_' = stepperState_
          /\ stepperStateLast_' = stepperStateLast_]_vars

====
